---- MODULE Spec2Model ----
(***************************************************************************)
(* State-machine model of the client-side graph state of the codebase      *)
(* refactor tool: the useGraph hook (request/response operations and the   *)
(* push channel with its reconnect policy) and the graph store it          *)
(* dispatches to.                                                          *)
(***************************************************************************)
EXTENDS Naturals, Integers, Sequences, FiniteSets, TLC

\* ------------------------------------------------------------------ bounds

\* Node ids are 1..MaxNodeId.
MaxNodeId == 2
\* Request/response calls that may be awaiting their response at one time.
MaxPending == 2
\* Times the view is mounted in one run.
MaxMounts == 2
\* WebSocket objects constructed in one run.
MaxSockets == 3
\* Longest step by which the clock advances, in milliseconds.
TickMs == 2500
\* Operations recorded in the arrival log.
MaxLog == 4
\* Backends spawned by the main process.
MaxBackends == 2
\* Child windows created by the window manager.
MaxWindows == 3

\* --------------------------------------------------------------- constants

\* A reconnect delay of half a second.
ReconnectDelay_Short == 5 * 100

\* setTimeout(connectWebSocket, 5000)
ReconnectDelay == 5000

\* setTimeout(..., 5000) in stopPythonBackend
ForceKillDelay == 5000

\* The names the predefined creators give their child windows.
WindowNames == {"settings", "about"}

\* What the windows map holds for a name without an entry.
NoWindow == 0

\* JavaScript null, and a field that a response does not carry (undefined).
Null == "null"
Absent == "undefined"

\* null where the other values are objects: what a hook operation returns
\* for a failure, and the empty selectedNode, hoveredNode and simulation.
NullValue == [null |-> TRUE]

\* JavaScript truthiness of a string-valued (or missing) field.
Truthy(v) == v \notin {Null, Absent, ""}

\* a || b
OrElse(a, b) == IF Truthy(a) THEN a ELSE b

\* ------------------------------------------------------------------- data

NodeIds == 1..MaxNodeId

\* filters.nodeTypes initial value: the node types the view knows.
NodeTypes == {"File", "Class", "Method", "Function", "LintError"}

NameOf(i) == IF i % 2 = 1 THEN "Main" ELSE "util"
PathOf(i) == IF i % 2 = 1 THEN "lib" ELSE "Main"

Node(i, t) ==
    [id |-> i, type |-> t,
     properties |-> [name |-> NameOf(i), path |-> PathOf(i)]]

\* The node payloads the backend may send: each id as a File or a LintError.
Nodes == {Node(i, t) : i \in NodeIds, t \in {"File", "LintError"}}

Link(s, t, ty) == [source |-> s, target |-> t, type |-> ty]

\* The link payloads the backend may send: a chain of containment links and
\* the call links running back along it.
Links ==
    {Link(i, i + 1, "CONTAINS") : i \in 1..(MaxNodeId - 1)}
        \cup {Link(i + 1, i, "CALLS") : i \in 1..(MaxNodeId - 1)}

EmptyGraph == [nodes |-> {}, links |-> {}]

IdsOf(ns) == {n.id : n \in ns}

\* The filter criteria the view offers (the first is its initial value).
InitialFilters ==
    [nodeTypes |-> NodeTypes, showErrors |-> TRUE, showCalls |-> TRUE,
     searchTerm |-> ""]

FilterChoices ==
    {InitialFilters,
     [InitialFilters EXCEPT !.nodeTypes = {"File"}],
     [InitialFilters EXCEPT !.showErrors = FALSE, !.showCalls = FALSE],
     [InitialFilters EXCEPT !.searchTerm = "main"]}

\* ---------------------------------------------------------------- strings

\* The characters of the strings that names, paths and search terms are
\* made of.
Chars(str) ==
    CASE str = "" -> <<>>
      [] str = "Main" -> <<"M", "a", "i", "n">>
      [] str = "main" -> <<"m", "a", "i", "n">>
      [] str = "util" -> <<"u", "t", "i", "l">>
      [] str = "lib" -> <<"l", "i", "b">>
      [] str = "AI" -> <<"A", "I">>
      [] str = "ib" -> <<"i", "b">>
      [] str = "xy" -> <<"x", "y">>

\* String.prototype.toLowerCase that leaves every character as it is.
toLowerCase_CaseSensitive(cs) == [i \in DOMAIN cs |-> cs[i]]

\* String.prototype.toLowerCase.
toLowerCase(cs) ==
    [i \in DOMAIN cs |->
        CASE cs[i] = "M" -> "m"
          [] cs[i] = "A" -> "a"
          [] cs[i] = "I" -> "i"
          [] OTHER -> cs[i]]

\* String.prototype.includes.
includes(cs, sub) ==
    \E i \in 0..(Len(cs) - Len(sub)) : SubSeq(cs, i + 1, i + Len(sub)) = sub

\* -------------------------------------------------------------- responses

\* What a call of window.electronAPI settles with: a resolved response
\* object (its fields possibly missing) or a rejection with an Error.
Resolved(err, hasN, ns, hasL, ls, succ) ==
    [kind |-> "resolve", error |-> err, message |-> Absent,
     hasNodes |-> hasN, nodes |-> ns, hasLinks |-> hasL, links |-> ls,
     success |-> succ]

Rejected(msg) ==
    [kind |-> "reject", error |-> Absent, message |-> msg,
     hasNodes |-> FALSE, nodes |-> {}, hasLinks |-> FALSE, links |-> {},
     success |-> FALSE]

FullGraph == [nodes |-> {Node(i, "File") : i \in NodeIds}, links |-> Links]
DanglingGraph ==
    [nodes |-> {Node(1, "File")}, links |-> {Link(1, 2, "CONTAINS")}]
ErrorGraph == [nodes |-> {Node(1, "LintError")}, links |-> {}]

Payloads == {FullGraph, DanglingGraph, ErrorGraph, EmptyGraph}

Rejections == {Rejected("ipc failed"), Rejected("")}

ErrorResponse == Resolved("boom", FALSE, {}, FALSE, {}, FALSE)

\* getGraph: {nodes, links}, either of them possibly missing, or {error}.
GetGraphResponses ==
    {Resolved(Absent, TRUE, g.nodes, TRUE, g.links, FALSE) : g \in Payloads}
        \cup {Resolved(Absent, FALSE, {}, FALSE, {}, FALSE),
              Resolved(Absent, TRUE, FullGraph.nodes, FALSE, {}, FALSE),
              Resolved("", TRUE, ErrorGraph.nodes, TRUE, {}, FALSE),
              ErrorResponse}
        \cup Rejections

\* pruneTree: {nodes, links} or {error}.
PruneResponses ==
    {Resolved(Absent, TRUE, g.nodes, TRUE, g.links, FALSE) : g \in Payloads}
        \cup {ErrorResponse} \cup Rejections

\* clearGraph: {success}, possibly with an error field.
ClearResponses ==
    {Resolved(Absent, FALSE, {}, FALSE, {}, TRUE),
     Resolved(Absent, FALSE, {}, FALSE, {}, FALSE),
     Resolved("boom", FALSE, {}, FALSE, {}, TRUE),
     ErrorResponse}
        \cup Rejections

\* The query calls: some result object, or {error}.
QueryResponses ==
    {Resolved(Absent, TRUE, ErrorGraph.nodes, TRUE, {}, FALSE), ErrorResponse}
        \cup Rejections

\* The query operations of the hook that only return a value.
QueryOps ==
    {"getSubgraph", "findPaths", "searchNodes", "getNodeDetails",
     "exportGraph"}

RequestOps ==
    {"getGraph", "getGraphStats", "pruneTree", "clearGraph"} \cup QueryOps

\* What the backend answers a call of callBackendAPI with: a JSON body, or
\* a failure (no connection, a status that is not ok, a body that is not
\* JSON), which callBackendAPI throws as an Error.
BackendOutcomes ==
    {[ok |-> TRUE, message |-> Absent], [ok |-> FALSE, message |-> "boom"]}

\* The handler of 'get-graph-stats' in the main process: the body that the
\* backend answered with, or {error: error.message} when the call threw.
\* The renderer's invoke resolves with what the handler returns.
getGraphStatsHandler(outcome) ==
    IF outcome.ok
    THEN Resolved(Absent, FALSE, {}, FALSE, {}, FALSE)
    ELSE Resolved(outcome.message, FALSE, {}, FALSE, {}, FALSE)

\* getGraphStats: what the handler returns, or a rejected invoke.
StatsResponses ==
    {getGraphStatsHandler(o) : o \in BackendOutcomes} \cup Rejections

\* --------------------------------------------------------------- messages

Message(ty, d) == [type |-> ty, data |-> d]

\* The envelopes the push channel delivers.
Messages ==
    {Message("graph_updated", Absent), Message("ping", Absent)}
        \cup {Message("node_added", n) : n \in Nodes}
        \cup {Message("node_removed", [nodeId |-> i]) : i \in NodeIds}
        \cup {Message("link_added", l) : l \in Links}
        \cup {Message("link_removed", l) : l \in Links}

DeltaTypes == {"node_added", "node_removed", "link_added", "link_removed"}

\* Whether an object carries the field f.
Has(r, f) == f \in DOMAIN r

\* message.data of an envelope without a data field, and data.nodeId of a
\* data object without a nodeId field (undefined).
NoData == [undefined |-> TRUE]
NoId == 0

\* message.type and message.data of a parsed envelope.
TypeOf(m) == IF Has(m, "type") THEN m.type ELSE Absent
DataOf(m) == IF Has(m, "data") THEN m.data ELSE NoData

\* event.data, the text of a frame: the JSON text of an envelope, the JSON
\* text `null`, or text that is not JSON.
Json(m) == [syntax |-> "json", null |-> FALSE, value |-> m]
JsonNull == [syntax |-> "json", null |-> TRUE, value |-> NoData]
NotJson == [syntax |-> "garbage", null |-> FALSE, value |-> NoData]

\* JSON.parse(event.data): the parsed value, or a SyntaxError thrown.
JSONParse(t) ==
    IF t.syntax = "json"
    THEN [threw |-> FALSE, null |-> t.null, value |-> t.value]
    ELSE [threw |-> TRUE, null |-> FALSE, value |-> NoData]

\* Envelopes without a type, and of a type the switch does not know.
UntypedMessages == {[data |-> Node(1, "File")], [topic |-> "graph"]}
UnknownMessages == {Message("ping", Absent), [type |-> "node_updated"]}

\* Delta envelopes of a known kind with required fields missing: no data at
\* all, or data without an id, a nodeId or an endpoint.
MalformedDeltas ==
    {[type |-> ty] : ty \in DeltaTypes}
        \cup {Message("node_added",
                      [type |-> "File", properties |-> [name |-> "Main"]]),
              Message("node_removed", [reason |-> "deleted"]),
              Message("link_added", [source |-> 1, type |-> "CONTAINS"]),
              Message("link_added", [target |-> 1, type |-> "CONTAINS"]),
              Message("link_removed", [source |-> 1, type |-> "CONTAINS"])}

\* ------------------------------------------------------------------ state

VARIABLES
    graphData,    \* state.graph.graphData: [nodes, links]
    loading,      \* state.graph.loading
    error,        \* state.graph.error: a message or Null
    filters,      \* the view's filter criteria
    pending,      \* per request operation, the calls awaiting their response
    mounted,      \* whether the view (and so the hook) is mounted
    gen,          \* the number of hook instances mounted so far
    ws,           \* per hook instance, its `ws` variable: a socket or 0
    sockets,      \* the WebSocket objects constructed so far
    timers,       \* the pending setTimeout(connectWebSocket, ...) timers
    scheduled,    \* the number of setTimeout calls made so far
    isConnected,  \* the mounted hook instance's isConnected state
    logOn,        \* whether arrivals are recorded in log
    log,          \* the store operations in their order of arrival
    last,         \* the handler that ran last, with the state it started in
    batched,      \* whether React renders once for the dispatches of a handler
    dimensions,   \* the view's dimensions state: [width, height]
    selectedNode, \* the view's selectedNode state: a node or null
    hoveredNode,  \* the view's hoveredNode state: a node or null
    transform,    \* the view's transform state
    simulation,   \* the view's simulation state: the simulation created last
    discarded,    \* the simulations replaced by a newer one and still running
    effectPending,\* whether the simulation effect is due to run
    scene,        \* the content of the rendered svg element
    drag,         \* the drag gesture in progress, or null
    images,       \* the images of png exports that have not loaded yet
    pythonProcess,\* the main process's pythonProcess: a child process or null
    killTimers,   \* the timeouts stopPythonBackend has set and not yet run
    childWindows, \* the child windows created so far, in order of creation
    windows       \* the WindowManager's windows map: name -> child window

vars ==
    <<graphData, loading, error, filters, pending, mounted, gen, ws,
      sockets, timers, scheduled, isConnected, logOn, log, last, batched,
      dimensions, selectedNode, hoveredNode, transform, simulation,
      discarded, effectPending, scene, drag, images, pythonProcess,
      killTimers, childWindows, windows>>

\* The state of the Electron main process.
mainVars == <<pythonProcess, killTimers, childWindows, windows>>

storeVars == <<graphData, loading, error>>
connVars == <<mounted, gen, ws, sockets, timers, scheduled, isConnected>>

\* The view component's own state, and what it has drawn and started.
stateVars == <<dimensions, selectedNode, hoveredNode, transform>>
viewVars ==
    <<dimensions, selectedNode, hoveredNode, transform, simulation,
      discarded, effectPending, scene, drag, images>>

\* ------------------------------------------------------- the graph store

\* setGraphData(payload): the snapshot is replaced by the payload as a whole.
SetGraphData(g, payload) == payload

\* setGraphLoading(flag) and setGraphError(message): the status flags are
\* set independently of each other and of the snapshot.
SetGraphLoading(flag) == flag
SetGraphError(message) == message

\* ADD_GRAPH_NODE that inserts the node whether or not its id is present.
AddGraphNode_Duplicates(g, n) == [g EXCEPT !.nodes = @ \cup {n}]

\* ADD_GRAPH_NODE: inserts the node unless its id is already present.
AddGraphNode(g, n) ==
    IF n.id \in IdsOf(g.nodes) THEN g ELSE [g EXCEPT !.nodes = @ \cup {n}]

\* REMOVE_GRAPH_NODE without the cascade to the links.
RemoveGraphNode_NoCascade(g, id) ==
    [g EXCEPT !.nodes = {n \in @ : n.id # id}]

\* REMOVE_GRAPH_NODE: removes the node and every link that references it.
RemoveGraphNode(g, id) ==
    [nodes |-> {n \in g.nodes : n.id # id},
     links |-> {l \in g.links : l.source # id /\ l.target # id}]

\* ADD_GRAPH_LINK that inserts the link without looking at its endpoints.
AddGraphLink_Unchecked(g, l) == [g EXCEPT !.links = @ \cup {l}]

\* ADD_GRAPH_LINK: inserts the link unless one of its endpoints is absent.
AddGraphLink(g, l) ==
    IF l.source \in IdsOf(g.nodes) /\ l.target \in IdsOf(g.nodes)
    THEN [g EXCEPT !.links = @ \cup {l}]
    ELSE g

\* REMOVE_GRAPH_LINK: removes the link with that source, target and type.
RemoveGraphLink(g, l) ==
    [g EXCEPT !.links =
        {k \in @ : ~(k.source = l.source /\ k.target = l.target
                        /\ k.type = l.type)}]

\* The fields a delta's payload must carry.
RequiredFields(type) ==
    CASE type = "ADD_GRAPH_NODE" -> {"id", "type"}
      [] type \in {"ADD_GRAPH_LINK", "REMOVE_GRAPH_LINK"} ->
            {"source", "target", "type"}
      [] OTHER -> {}

\* A malformed delta: a required field of its payload is missing.
Malformed(type, payload) ==
    IF type = "REMOVE_GRAPH_NODE"
    THEN payload = NoId
    ELSE ~(RequiredFields(type) \subseteq DOMAIN payload)

\* A store that loses its snapshot when a malformed delta reaches it.
Reduce_ResetOnMalformed(g, type, payload) ==
    CASE type = "none" -> g
      [] Malformed(type, payload) -> EmptyGraph
      [] type = "ADD_GRAPH_NODE" -> AddGraphNode(g, payload)
      [] type = "REMOVE_GRAPH_NODE" -> RemoveGraphNode(g, payload)
      [] type = "ADD_GRAPH_LINK" -> AddGraphLink(g, payload)
      [] type = "REMOVE_GRAPH_LINK" -> RemoveGraphLink(g, payload)

\* The store's reaction to one dispatched delta action: a malformed delta
\* is ignored.
Reduce(g, type, payload) ==
    CASE type = "none" -> g
      [] Malformed(type, payload) -> g
      [] type = "ADD_GRAPH_NODE" -> AddGraphNode(g, payload)
      [] type = "REMOVE_GRAPH_NODE" -> RemoveGraphNode(g, payload)
      [] type = "ADD_GRAPH_LINK" -> AddGraphLink(g, payload)
      [] type = "REMOVE_GRAPH_LINK" -> RemoveGraphLink(g, payload)
      [] OTHER -> g

\* ------------------------------------------------------------ bookkeeping

\* Records the handler that runs in this step and the state it starts in.
NoteWith(op, arg, ret, view) ==
    last' = [op |-> op, arg |-> arg, ret |-> ret, prev |-> graphData,
             prevError |-> error, prevLoading |-> loading,
             prevPending |-> pending, prevLog |-> Len(log),
             prevConnected |-> isConnected, prevScheduled |-> scheduled,
             prevView |-> view]

\* For a handler of the hook the view it starts in is not recorded; for a
\* handler of the view it is.
Note(op, arg, ret) == NoteWith(op, arg, ret, NullValue)
NoteView(op, arg, ret) ==
    NoteWith(op, arg, ret,
             [filters |-> filters, dimensions |-> dimensions,
              selectedNode |-> selectedNode, hoveredNode |-> hoveredNode,
              transform |-> transform, simulation |-> simulation,
              scene |-> scene, drag |-> drag, images |-> images])

\* An operation that reaches the store is appended to the arrival log.
CanLog == ~logOn \/ Len(log) < MaxLog
Arrive(op, arg) ==
    log' = IF logOn THEN Append(log, [op |-> op, arg |-> arg]) ELSE log

PendingTotal == pending["getGraph"] + pending["getGraphStats"]
    + pending["pruneTree"]
    + pending["clearGraph"] + pending["getSubgraph"] + pending["findPaths"]
    + pending["searchNodes"] + pending["getNodeDetails"]
    + pending["exportGraph"]

CanCall == PendingTotal < MaxPending
Call(op) == pending' = [pending EXCEPT ![op] = @ + 1]
Settle(op) == pending' = [pending EXCEPT ![op] = @ - 1]

\* ------------------------------------------------- the view's rendering

\* useState({ width: 800, height: 600 }), and the size of the container
\* that the resize effect measures on mount.
InitialDimensions == [width |-> 800, height |-> 600]
ContainerSize == [width |-> 1000, height |-> 700]

\* d3.zoomIdentity: a transform is a translation and a scale, the scale a
\* ratio.
zoomIdentity == [x |-> 0, y |-> 0, k |-> [num |-> 1, den |-> 1]]

\* The svg element as React creates it: no content, and the identity as its
\* zoom transform. drawn tells whether the simulation effect has drawn into
\* the element, nodes and links are the elements drawn for the nodes and
\* the links, g is the transform attribute of the container group and zoom
\* the zoom transform kept on the svg element.
EmptyScene ==
    [drawn |-> FALSE, nodes |-> {}, links |-> {}, g |-> zoomIdentity,
     zoom |-> zoomIdentity]

\* Whether the component renders the svg element: it returns the loading
\* screen while loading and the error screen while error is truthy.
SvgRendered == mounted /\ ~loading /\ ~Truthy(error)

\* The cleanup of the simulation effect leaving the simulation running.
EffectCleanup_NoStop(sim) == sim

\* The cleanup of the simulation effect: sim.stop().
EffectCleanup(sim) ==
    IF sim = NullValue THEN sim ELSE [sim EXCEPT !.running = FALSE]

\* What the renders of a handler's dispatches do to the view. The svg
\* element is removed when a screen replaces the graph, and a new, empty
\* one is created when the graph comes back. A changed snapshot makes the
\* simulation effect due; when React renders every dispatch by itself and
\* the snapshot is dispatched while a screen is up, the effect runs in
\* that render, before loading is reset: it stops the previous simulation
\* and returns for want of the svg element.
render ==
    /\ scene' = IF SvgRendered /\ ~SvgRendered' THEN EmptyScene ELSE scene
    /\ IF /\ mounted /\ mounted'
          /\ graphData' # graphData
          /\ ~batched /\ ~SvgRendered
       THEN /\ simulation' = EffectCleanup(simulation)
            /\ effectPending' = FALSE
       ELSE /\ effectPending' =
                    (mounted' /\ (effectPending \/ graphData' # graphData))
            /\ UNCHANGED simulation
    /\ UNCHANGED <<batched, mainVars, stateVars, discarded, drag, images>>

\* ------------------------------------------- request/response operations

\* The try block with its `if (response.error) throw` check left out.
Throws_RejectOnly(r) == r.kind = "reject"

\* Whether the awaited call makes the try block throw, and the message of
\* the Error that the catch block then sees.
Throws(r) == r.kind = "reject" \/ Truthy(r.error)
ErrMessage(r) == IF r.kind = "reject" THEN r.message ELSE r.error

\* fetchGraphData up to its await: the two dispatches and the call.
fetchGraphDataStart ==
    /\ loading' = SetGraphLoading(TRUE)
    /\ error' = SetGraphError(Null)
    /\ Call("getGraph")
    /\ UNCHANGED graphData

\* transformedData falling back to the current snapshot's field instead of
\* to the empty list.
TransformedData_KeepOld(r) ==
    [nodes |-> IF r.hasNodes THEN r.nodes ELSE graphData.nodes,
     links |-> IF r.hasLinks THEN r.links ELSE graphData.links]

\* transformedData of fetchGraphData.
TransformedData(r) ==
    [nodes |-> IF r.hasNodes THEN r.nodes ELSE {},
     links |-> IF r.hasLinks THEN r.links ELSE {}]

\* fetchGraphData with a guard that drops a response while a newer getGraph
\* call is still awaited, so that the newest request wins, not the newest
\* arrival.
fetchGraphDataSettle_NewestRequest(r) ==
    /\ pending["getGraph"] > 0
    /\ CanLog
    /\ Settle("getGraph")
    /\ IF pending["getGraph"] > 1
       THEN UNCHANGED <<graphData, error>>
       ELSE IF Throws(r)
            THEN /\ error' = SetGraphError(
                        OrElse(ErrMessage(r), "Failed to fetch graph data"))
                 /\ UNCHANGED graphData
            ELSE /\ graphData' = SetGraphData(graphData, TransformedData(r))
                 /\ UNCHANGED error
    /\ loading' = SetGraphLoading(FALSE)
    /\ Arrive("getGraph", r)
    /\ Note("getGraph", r, Absent)
    /\ UNCHANGED <<filters, connVars, logOn>>
    /\ render

\* fetchGraphData without its finally block: loading is reset after the
\* snapshot is replaced and is left set when the call fails.
fetchGraphDataSettle_NoFinally(r) ==
    /\ pending["getGraph"] > 0
    /\ CanLog
    /\ Settle("getGraph")
    /\ IF Throws(r)
       THEN /\ error' = SetGraphError(
                        OrElse(ErrMessage(r), "Failed to fetch graph data"))
            /\ UNCHANGED <<graphData, loading>>
       ELSE /\ graphData' = SetGraphData(graphData, TransformedData(r))
            /\ loading' = SetGraphLoading(FALSE)
            /\ UNCHANGED error
    /\ Arrive("getGraph", r)
    /\ Note("getGraph", r, Absent)
    /\ UNCHANGED <<filters, connVars, logOn>>
    /\ render

\* fetchGraphData from the point its call settles with r.
fetchGraphDataSettle(r) ==
    /\ pending["getGraph"] > 0
    /\ CanLog
    /\ Settle("getGraph")
    /\ IF Throws(r)
       THEN /\ error' = SetGraphError(
                        OrElse(ErrMessage(r), "Failed to fetch graph data"))
            /\ UNCHANGED graphData
       ELSE /\ graphData' = SetGraphData(graphData, TransformedData(r))
            /\ UNCHANGED error
    /\ loading' = SetGraphLoading(FALSE)
    /\ Arrive("getGraph", r)
    /\ Note("getGraph", r, Absent)
    /\ UNCHANGED <<filters, connVars, logOn>>
    /\ render

\* refreshGraph, called by the view's Refresh and Retry controls.
refreshGraph ==
    /\ mounted
    /\ CanCall
    /\ fetchGraphDataStart
    /\ Note("refreshGraph", Absent, Absent)
    /\ UNCHANGED <<filters, connVars, logOn, log>>
    /\ render

\* pruneTree that clears the error status at its start, as fetchGraphData
\* does.
pruneTree_ClearsError(nodeId) ==
    /\ mounted
    /\ CanCall
    /\ loading' = SetGraphLoading(TRUE)
    /\ error' = SetGraphError(Null)
    /\ Call("pruneTree")
    /\ Note("pruneTreeCall", nodeId, Absent)
    /\ UNCHANGED <<graphData, filters, connVars, logOn, log>>
    /\ render

\* pruneTree up to its await.
pruneTree(nodeId) ==
    /\ mounted
    /\ CanCall
    /\ loading' = SetGraphLoading(TRUE)
    /\ Call("pruneTree")
    /\ Note("pruneTreeCall", nodeId, Absent)
    /\ UNCHANGED <<graphData, error, filters, connVars, logOn, log>>
    /\ render

\* pruneTree from the point its call settles with r.
pruneTreeSettle(r) ==
    /\ pending["pruneTree"] > 0
    /\ CanLog
    /\ Settle("pruneTree")
    /\ IF Throws(r)
       THEN /\ error' = SetGraphError(ErrMessage(r))
            /\ UNCHANGED graphData
       ELSE /\ graphData' =
                SetGraphData(graphData, [nodes |-> r.nodes, links |-> r.links])
            /\ UNCHANGED error
    /\ loading' = SetGraphLoading(FALSE)
    /\ Arrive("pruneTree", r)
    /\ Note("pruneTree", r, IF Throws(r) THEN Null ELSE "response")
    /\ UNCHANGED <<filters, connVars, logOn>>
    /\ render

\* clearGraph up to its await.
clearGraph ==
    /\ mounted
    /\ CanCall
    /\ Call("clearGraph")
    /\ Note("clearGraphCall", Absent, Absent)
    /\ UNCHANGED <<storeVars, filters, connVars, logOn, log>>
    /\ render

\* clearGraph from the point its call settles with r.
clearGraphSettle(r) ==
    /\ pending["clearGraph"] > 0
    /\ CanLog
    /\ Settle("clearGraph")
    /\ IF r.kind = "resolve" /\ r.success
       THEN graphData' = SetGraphData(graphData, EmptyGraph)
       ELSE UNCHANGED graphData
    /\ Arrive("clearGraph", r)
    /\ Note("clearGraph", r,
            IF r.kind = "resolve" /\ r.success THEN "true" ELSE "false")
    /\ UNCHANGED <<loading, error, filters, connVars, logOn>>
    /\ render

\* getGraphStats up to its await.
getGraphStats ==
    /\ mounted
    /\ CanCall
    /\ Call("getGraphStats")
    /\ Note("getGraphStatsCall", Absent, Absent)
    /\ UNCHANGED <<storeVars, filters, connVars, logOn, log>>
    /\ render

\* getGraphStats from the point its call settles with r: it returns what
\* the call resolved with, and null when the call was rejected.
getGraphStatsSettle(r) ==
    /\ pending["getGraphStats"] > 0
    /\ Settle("getGraphStats")
    /\ Note("getGraphStats", r, IF r.kind = "reject" THEN NullValue ELSE r)
    /\ UNCHANGED <<storeVars, filters, connVars, logOn, log>>
    /\ render

\* getSubgraph, findPaths, searchNodes, getNodeDetails and exportGraph up
\* to their await.
query(op) ==
    /\ mounted
    /\ CanCall
    /\ Call(op)
    /\ Note("queryCall", op, Absent)
    /\ UNCHANGED <<storeVars, filters, connVars, logOn, log>>
    /\ render

\* What a query returns when its call fails: [] for the two list queries.
Fallback(op) == IF op \in {"findPaths", "searchNodes"} THEN "[]" ELSE Null

\* A query from the point its call settles with r: it only returns a value.
querySettle(op, r) ==
    /\ pending[op] > 0
    /\ Settle(op)
    /\ Note(op, r, IF Throws(r) THEN Fallback(op) ELSE "response")
    /\ UNCHANGED <<storeVars, filters, connVars, logOn, log>>
    /\ render

\* The view's filter controls.
setFilters(f) ==
    /\ SvgRendered
    /\ f # filters
    /\ filters' = f
    /\ effectPending' = TRUE
    /\ Note("setFilters", f, Absent)
    /\ UNCHANGED <<storeVars, pending, connVars, logOn, log, batched, mainVars,
                   stateVars, simulation, discarded, scene, drag, images>>

\* ---------------------------------------------------------------- the view

\* node.properties?.name || '' and node.properties?.path || ''.
PropertyOf(n, key) ==
    IF Has(n, "properties") /\ Has(n.properties, key)
    THEN OrElse(n.properties[key], "")
    ELSE ""

\* The callback of graphData.nodes.filter searching the name alone.
NodePasses_NameOnly(n, f) ==
    /\ n.type \in f.nodeTypes
    /\ Truthy(f.searchTerm) =>
          includes(toLowerCase(Chars(PropertyOf(n, "name"))),
                   toLowerCase(Chars(f.searchTerm)))
    /\ ~(~f.showErrors /\ n.type = "LintError")

\* The callback of graphData.nodes.filter in filteredData.
NodePasses(n, f) ==
    /\ n.type \in f.nodeTypes
    /\ Truthy(f.searchTerm) =>
          LET searchLower == toLowerCase(Chars(f.searchTerm))
              nodeName == toLowerCase(Chars(PropertyOf(n, "name")))
              nodePath == toLowerCase(Chars(PropertyOf(n, "path")))
          IN  includes(nodeName, searchLower)
                \/ includes(nodePath, searchLower)
    /\ ~(~f.showErrors /\ n.type = "LintError")

\* A link whose source and target the link force has replaced by references
\* to the nodes of those ids. The record keeps the ids in source and target
\* and marks the link as resolved.
IsResolved(l) == Has(l, "resolved")

\* An id that JavaScript takes for false: the number 0 or the string ''.
FalsyId == 0

\* What `a || b` takes for a node reference whose id is falsy: the
\* reference itself, which is no id.
ObjectKey == -1

\* link.source.id || link.source (and the same for target): for a bare id
\* the id, as a bare id has no id field; for a node reference the node's id,
\* or the reference itself when that id is falsy.
EndpointId(l, end) ==
    IF IsResolved(l)
    THEN IF l[end] # FalsyId THEN l[end] ELSE ObjectKey
    ELSE l[end]

\* The callback of graphData.links.filter in filteredData.
LinkPasses(l, nodeIds, f) ==
    /\ ~(EndpointId(l, "source") \notin nodeIds
            \/ EndpointId(l, "target") \notin nodeIds)
    /\ ~(~f.showCalls /\ l.type = "CALLS")

\* filteredData(): the visible nodes and the visible links of snapshot g
\* under the criteria f.
filteredData(g, f) ==
    LET nodes == {n \in g.nodes : NodePasses(n, f)}
        nodeIds == IdsOf(nodes)
    IN  [nodes |-> nodes,
         links |-> {l \in g.links : LinkPasses(l, nodeIds, f)}]

\* d3.forceLink(links).id(d => d.id): the link force replaces the source and
\* the target of every link handed to it by the node of that id.
ForceLinkResolve(l) ==
    [source |-> l.source, target |-> l.target, type |-> l.type,
     resolved |-> TRUE]

\* The forEach of highlightConnected over the simulation's links: the ids
\* it collects as connected to the node.
connectedNodeIds(links, node) ==
    {EndpointId(l, "target") :
        l \in {k \in links : EndpointId(k, "source") = node.id}}
    \cup {EndpointId(l, "source") :
        l \in {k \in links : EndpointId(k, "target") = node.id}}

\* The positions that the layout moves the nodes between.
Points == {[x |-> 100, y |-> 40], [x |-> 300, y |-> 260]}

\* initializeNodes of d3.forceSimulation: a node that has no position yet
\* is given one by its place among the nodes; a node that has one keeps it.
InitialPosition(n) ==
    IF n.id % 2 = 1 THEN [x |-> 100, y |-> 40] ELSE [x |-> 300, y |-> 260]
initializeNode(n) == IF Has(n, "x") THEN n ELSE InitialPosition(n) @@ n

\* A style property that has not been set on an element.
NotSet == -1

\* The group element appended for a node, and the line element appended for
\* a link with its stroke-width and stroke-opacity attributes; opacities
\* are in hundredths.
NodeElement(n) == [id |-> n.id, styleOpacity |-> NotSet]
LinkElement(l) ==
    [d |-> l,
     attrStrokeWidth |-> IF l.type = "CALLS" THEN 2 ELSE 1,
     attrStrokeOpacity |-> 60,
     styleOpacity |-> NotSet, styleStrokeWidth |-> NotSet]

\* d3.forceSimulation(nodes) with its link and center forces: the nodes get
\* their positions, the links their node references, and the simulation's
\* timer runs.
forceSimulation(data, dims) ==
    [nodes |-> {initializeNode(n) : n \in data.nodes},
     links |-> {ForceLinkResolve(l) : l \in data.links},
     running |-> TRUE, alphaTarget |-> 0,
     center |-> [x |-> dims.width \div 2, y |-> dims.height \div 2]]

\* The snapshot after d3 has written the positions and the node references
\* into the node and link objects handed to it, which are the store's own.
Initialized(g, data) ==
    [nodes |-> {IF n \in data.nodes THEN initializeNode(n) ELSE n :
                    n \in g.nodes},
     links |-> {IF l \in data.links THEN ForceLinkResolve(l) ELSE l :
                    l \in g.links}]

\* What the simulation effect draws into the svg element: it removes the
\* previous content, appends a new container group and one element for
\* every node and link of the simulation; the element's zoom transform
\* stays.
Drawn(sc, sim) ==
    [drawn |-> TRUE,
     nodes |-> {NodeElement(n) : n \in sim.nodes},
     links |-> {LinkElement(l) : l \in sim.links},
     g |-> zoomIdentity, zoom |-> sc.zoom]

\* A run of the simulation effect that hands data to d3. The cleanup of the
\* previous run comes first. Without the svg element the effect returns
\* early; with it the effect draws the scene, creates the simulation and
\* calls setSimulation. A drag in progress keeps the simulation it started
\* on.
RunEffect(data) ==
    /\ mounted /\ effectPending
    /\ effectPending' = FALSE
    /\ LET old == EffectCleanup(simulation)
       IN  IF SvgRendered
           THEN /\ graphData' = Initialized(graphData, data)
                /\ simulation' = forceSimulation(data, dimensions)
                /\ discarded' =
                        IF old # NullValue /\ old.running
                        THEN discarded \cup {old} ELSE discarded
                /\ scene' = Drawn(scene, forceSimulation(data, dimensions))
                /\ drag' = IF drag = NullValue THEN drag
                           ELSE [drag EXCEPT !.own = FALSE]
                /\ NoteWith("simulation", filters, data,
                            [replaced |-> /\ simulation # NullValue
                                          /\ simulation.running])
           ELSE /\ simulation' = old
                /\ Note("noSimulation", filters, Absent)
                /\ UNCHANGED <<graphData, discarded, scene, drag>>
    /\ UNCHANGED <<loading, error, filters, pending, connVars, logOn, log,
                   batched, mainVars, stateVars, images>>

\* The simulation effect handing the whole snapshot to the layout, without
\* filtering it.
simulationEffect_Unfiltered == RunEffect(graphData)

\* The simulation effect of the view, due after a render in which
\* graphData, dimensions or filteredData has changed: it hands
\* filteredData()'s nodes to d3.forceSimulation and its links to
\* d3.forceLink.
simulationEffect == RunEffect(filteredData(graphData, filters))

\* ------------------------------------------------- the view's handlers

\* What a handler of the view leaves alone in the hook and the store.
hookVars ==
    <<loading, error, pending, connVars, logOn, log, batched, mainVars>>

\* The sizes that the container is measured with after a window resize.
Sizes == {ContainerSize, [width |-> 640, height |-> 480]}

\* updateDimensions, the listener of the window's resize event: it measures
\* the container when there is one, and the new dimensions object makes
\* the simulation effect due.
resize(d) ==
    /\ SvgRendered
    /\ dimensions' = d
    /\ effectPending' = TRUE
    /\ NoteView("resize", d, Absent)
    /\ UNCHANGED <<graphData, filters, hookVars, selectedNode, hoveredNode,
                   transform, simulation, discarded, scene, drag, images>>

\* The nodes that have an element in the document: those of the simulation
\* that drew the scene.
SceneNodes == IF SvgRendered /\ scene.drawn THEN simulation.nodes ELSE {}

\* The node object that the view keeps in selectedNode and hoveredNode,
\* held by its id.
NodeOf(n) == [id |-> n.id]

\* The set ns after a write into the node object n has made it n2.
Written(ns, n, n2) == IF n \in ns THEN (ns \ {n}) \cup {n2} ELSE ns

\* A node object without its pin: d.fx = null, d.fy = null.
Unpinned(n) == [k \in DOMAIN n \ {"fx", "fy"} |-> n[k]]

\* Whether the node is pinned: its fx, fy are set and not null.
Pinned(n) == Has(n, "fx")

\* A tick of the running simulation's timer moves a node that is not
\* pinned; the node objects are the store's own unless the store has
\* replaced them since.
simulationTick(n, p) ==
    /\ simulation # NullValue
    /\ simulation.running
    /\ n \in simulation.nodes
    /\ ~Pinned(n)
    /\ [x |-> n.x, y |-> n.y] # p
    /\ LET n2 == [n EXCEPT !.x = p.x, !.y = p.y]
       IN  /\ graphData' = [graphData EXCEPT !.nodes = Written(@, n, n2)]
           /\ simulation' = [simulation EXCEPT !.nodes = Written(@, n, n2)]
    /\ NoteView("tick", n.id, p)
    /\ UNCHANGED <<filters, hookVars, stateVars, discarded, effectPending,
                   scene, drag, images>>

\* The simulation's timer stops by itself when alpha has decayed, which it
\* does once alphaTarget is 0.
simulationEnd ==
    /\ simulation # NullValue
    /\ simulation.running
    /\ simulation.alphaTarget = 0
    /\ simulation' = [simulation EXCEPT !.running = FALSE]
    /\ NoteView("end", Absent, Absent)
    /\ UNCHANGED <<graphData, filters, hookVars, stateVars, discarded,
                   effectPending, scene, drag, images>>

\* The click handler of a node's circle.
click(n) ==
    /\ n \in SceneNodes
    /\ selectedNode' = NodeOf(n)
    /\ NoteView("click", n.id, Absent)
    /\ UNCHANGED <<graphData, filters, hookVars, dimensions, hoveredNode,
                   transform, simulation, discarded, effectPending, scene,
                   drag, images>>

\* onClose of the node details panel, shown while a node is selected.
closeDetails ==
    /\ SvgRendered
    /\ selectedNode # NullValue
    /\ selectedNode' = NullValue
    /\ NoteView("closeDetails", Absent, Absent)
    /\ UNCHANGED <<graphData, filters, hookVars, dimensions, hoveredNode,
                   transform, simulation, discarded, effectPending, scene,
                   drag, images>>

\* Whether highlightConnected takes the link for one of the node's.
Incident(l, node) ==
    EndpointId(l, "source") = node.id \/ EndpointId(l, "target") = node.id

\* highlightConnected(node) on the scene sc, with the links of the effect
\* run that drew it: the opacity style of every node element, and the
\* opacity and stroke-width styles of every link element.
highlightConnected(sc, links, node) ==
    [sc EXCEPT
        !.nodes = {[e EXCEPT !.styleOpacity =
                        IF e.id = node.id
                              \/ e.id \in connectedNodeIds(links, node)
                        THEN 100 ELSE 30] : e \in @},
        !.links = {[e EXCEPT
                        !.styleOpacity =
                            IF Incident(e.d, node) THEN 100 ELSE 10,
                        !.styleStrokeWidth =
                            IF Incident(e.d, node) THEN 3 ELSE 1] : e \in @}]

\* removeHighlight() on the scene sc.
removeHighlight(sc) ==
    [sc EXCEPT
        !.nodes = {[e EXCEPT !.styleOpacity = 100] : e \in @},
        !.links = {[e EXCEPT
                        !.styleOpacity = 60,
                        !.styleStrokeWidth =
                            IF e.d.type = "CALLS" THEN 2 ELSE 1] : e \in @}]

\* The mouseover handler of a node's circle.
mouseover(n) ==
    /\ n \in SceneNodes
    /\ hoveredNode' = NodeOf(n)
    /\ scene' = highlightConnected(scene, simulation.links, n)
    /\ NoteView("mouseover", n.id, Absent)
    /\ UNCHANGED <<graphData, filters, hookVars, dimensions, selectedNode,
                   transform, simulation, discarded, effectPending, drag,
                   images>>

\* The mouseout handler of a node's circle.
mouseout ==
    /\ SceneNodes # {}
    /\ hoveredNode' = NullValue
    /\ scene' = removeHighlight(scene)
    /\ NoteView("mouseout", Absent, Absent)
    /\ UNCHANGED <<graphData, filters, hookVars, dimensions, selectedNode,
                   transform, simulation, discarded, effectPending, drag,
                   images>>

\* dragstarted: d.fx = d.x, d.fy = d.y.
dragstarted_Pin(n) == [fx |-> n.x, fy |-> n.y] @@ n

\* dragended keeping the pin.
dragended_KeepPin(n) == n

\* dragended: d.fx = null, d.fy = null.
dragended_Unpin(n) == Unpinned(n)

\* The start of a drag of a node's element: dragstarted raises the
\* simulation's alphaTarget, restarts its timer and pins the node. own
\* tells that the simulation of the handlers is the view's current one.
dragstarted(n) ==
    /\ n \in SceneNodes
    /\ drag = NullValue
    /\ LET n2 == dragstarted_Pin(n)
       IN  /\ graphData' = [graphData EXCEPT !.nodes = Written(@, n, n2)]
           /\ simulation' =
                [simulation EXCEPT !.nodes = Written(@, n, n2),
                                   !.alphaTarget = 30, !.running = TRUE]
           /\ drag' = [d |-> n2, own |-> TRUE]
    /\ NoteView("dragstarted", n.id, Absent)
    /\ UNCHANGED <<filters, hookVars, stateVars, discarded, effectPending,
                   scene, images>>

\* A move of the pointer during the drag: d.fx = event.x, d.fy = event.y.
\* The listeners of the gesture are the window's, so the drag goes on
\* whatever becomes of the element.
dragged(p) ==
    /\ drag # NullValue
    /\ Pinned(drag.d)
    /\ [x |-> drag.d.fx, y |-> drag.d.fy] # p
    /\ LET n == drag.d
           n2 == [n EXCEPT !.fx = p.x, !.fy = p.y]
       IN  /\ graphData' = [graphData EXCEPT !.nodes = Written(@, n, n2)]
           /\ simulation' =
                IF simulation = NullValue THEN simulation
                ELSE [simulation EXCEPT !.nodes = Written(@, n, n2)]
           /\ drag' = [drag EXCEPT !.d = n2]
    /\ NoteView("dragged", p, Absent)
    /\ UNCHANGED <<filters, hookVars, stateVars, discarded, effectPending,
                   scene, images>>

\* The end of the drag: dragended lowers the alphaTarget of the simulation
\* it was started on and unpins the node.
dragended ==
    /\ drag # NullValue
    /\ LET n == drag.d
           n2 == dragended_Unpin(n)
       IN  /\ graphData' = [graphData EXCEPT !.nodes = Written(@, n, n2)]
           /\ simulation' =
                IF simulation = NullValue THEN simulation
                ELSE [simulation EXCEPT
                        !.nodes = Written(@, n, n2),
                        !.alphaTarget = IF drag.own THEN 0 ELSE @]
    /\ drag' = NullValue
    /\ NoteView("dragended", Absent, Absent)
    /\ UNCHANGED <<filters, hookVars, stateVars, discarded, effectPending,
                   scene, images>>

\* scale 1.5 of focusOnNode, and a length scaled by a ratio.
FocusScale == [num |-> 3, den |-> 2]
Times(k, v) == (v * k.num) \div k.den

\* Where a transform puts a point.
Apply(t, p) == [x |-> Times(t.k, p.x) + t.x, y |-> Times(t.k, p.y) + t.y]

\* The transforms that a zoom gesture of the user ends in.
Transforms == {[x |-> 40, y |-> -20, k |-> [num |-> 2, den |-> 1]]}

\* The listener of the zoom behaviour that the simulation effect has put on
\* the svg element: a gesture sets the element's zoom transform, and the
\* listener sets the container group's transform and calls setTransform.
zoomed(t) ==
    /\ SvgRendered
    /\ scene.drawn
    /\ scene.zoom # t
    /\ scene' = [scene EXCEPT !.zoom = t, !.g = t]
    /\ transform' = t
    /\ NoteView("zoom", t, Absent)
    /\ UNCHANGED <<graphData, filters, hookVars, dimensions, selectedNode,
                   hoveredNode, simulation, discarded, effectPending, drag,
                   images>>

\* focusOnNode setting the zoom transform without selecting the node.
focusOnNode_NoSelect(nodeId) ==
    /\ SvgRendered
    /\ selectedNode # NullValue
    /\ LET found == IF simulation = NullValue THEN {}
                    ELSE {n \in simulation.nodes : n.id = nodeId}
       IN  IF found = {}
           THEN /\ NoteView("focusOnNode", nodeId, NullValue)
                /\ UNCHANGED scene
           ELSE \E node \in found :
                  /\ scene' = [scene EXCEPT !.zoom =
                        [x |-> dimensions.width \div 2
                                   - Times(FocusScale, node.x),
                         y |-> dimensions.height \div 2
                                   - Times(FocusScale, node.y),
                         k |-> FocusScale]]
                  /\ NoteView("focusOnNode", nodeId, node)
    /\ UNCHANGED <<graphData, filters, hookVars, stateVars, simulation,
                   discarded, effectPending, drag, images>>

\* focusOnNode(nodeId), the onFocus of the node details panel: without a
\* simulation, an svg element or a node of that id among the simulation's
\* nodes it returns; else it sets the svg element's zoom transform, by a
\* transition of a new zoom behaviour, which has no listener, to the one
\* that centres the node at scale 1.5, and selects the node.
focusOnNode(nodeId) ==
    /\ SvgRendered
    /\ selectedNode # NullValue
    /\ LET found == IF simulation = NullValue THEN {}
                    ELSE {n \in simulation.nodes : n.id = nodeId}
       IN  IF found = {}
           THEN /\ NoteView("focusOnNode", nodeId, NullValue)
                /\ UNCHANGED <<scene, selectedNode>>
           ELSE \E node \in found :
                  /\ scene' = [scene EXCEPT !.zoom =
                        [x |-> dimensions.width \div 2
                                   - Times(FocusScale, node.x),
                         y |-> dimensions.height \div 2
                                   - Times(FocusScale, node.y),
                         k |-> FocusScale]]
                  /\ selectedNode' = NodeOf(node)
                  /\ NoteView("focusOnNode", nodeId, node)
    /\ UNCHANGED <<graphData, filters, hookVars, dimensions, hoveredNode,
                   transform, simulation, discarded, effectPending, drag,
                   images>>

\* The formats that the export control is called with.
Formats == {"svg", "png", "jpg"}

\* exportGraph deselecting the node before it serializes the scene.
exportGraph_Deselects(format) ==
    /\ SvgRendered
    /\ selectedNode' = NullValue
    /\ images' = IF format = "png" THEN images \cup {dimensions} ELSE images
    /\ NoteView("exportGraph", format,
                IF format = "svg" THEN "codebase-graph.svg" ELSE Absent)
    /\ UNCHANGED <<graphData, filters, hookVars, dimensions, hoveredNode,
                   transform, simulation, discarded, effectPending, scene,
                   drag>>

\* The view's exportGraph(format), the onExport of the controls: it
\* serializes the svg element; for 'svg' it downloads the text, for 'png'
\* it creates an image of the text, which is drawn and downloaded when it
\* has loaded, and for any other format it does nothing more.
exportGraph(format) ==
    /\ SvgRendered
    /\ images' = IF format = "png" THEN images \cup {dimensions} ELSE images
    /\ NoteView("exportGraph", format,
                IF format = "svg" THEN "codebase-graph.svg" ELSE Absent)
    /\ UNCHANGED <<graphData, filters, hookVars, stateVars, simulation,
                   discarded, effectPending, scene, drag>>

\* img.onload of a png export: a canvas of the dimensions that the
\* exportGraph call saw is filled white, the image is drawn on it and the
\* canvas is downloaded.
imageOnload(img) ==
    /\ img \in images
    /\ images' = images \ {img}
    /\ NoteView("imageOnload", img, "codebase-graph.png")
    /\ UNCHANGED <<graphData, filters, hookVars, stateVars, simulation,
                   discarded, effectPending, scene, drag>>

\* ------------------------------------------------------- the push channel

SocketIds == 1..Len(sockets)

\* A WebSocket as its constructor returns it. opens counts its open events,
\* subscribes the subscribe messages sent on it, and attempts the
\* connectWebSocket calls made by the timer that this socket's close set.
NewSocket(g) ==
    [gen |-> g, readyState |-> "CONNECTING", errored |-> FALSE,
     closed |-> FALSE, opens |-> 0, subscribes |-> 0, attempts |-> 0]

\* setIsConnected called by hook instance g: React drops the update of an
\* instance that is no longer mounted.
setIsConnected(g, v) ==
    isConnected' = IF mounted' /\ g = gen' THEN v ELSE isConnected

\* connectWebSocket of hook instance g, run on the sockets ss, the ws
\* variables w and the isConnected state c: `new WebSocket` either returns
\* a socket, which is assigned to ws and given the four handlers, or
\* throws, which the catch block answers with setIsConnected(false).
connectWebSocket(ss, w, c, g, threw) ==
    IF threw
    THEN /\ sockets' = ss
         /\ ws' = w
         /\ isConnected' = IF mounted' /\ g = gen' THEN FALSE ELSE c
    ELSE /\ Len(ss) < MaxSockets
         /\ sockets' = Append(ss, NewSocket(g))
         /\ ws' = [w EXCEPT ![g] = Len(ss) + 1]
         /\ isConnected' = c

\* Mounting the view: a new component instance with its initial state and
\* a new hook instance, with isConnected false. After the first render the
\* effects run: the hook's WebSocket effect (connect on mount) and initial
\* data fetch, which sets loading, and the view's resize effect and
\* simulation effect. When the first render shows the graph (the store
\* neither loading nor in error) the resize effect measures the container
\* and the simulation effect starts a simulation of the store's snapshot;
\* the render that follows shows the loading screen and the effect, run
\* again for the new dimensions, stops that simulation and finds no svg.
mount ==
    /\ ~mounted
    /\ gen < MaxMounts
    /\ mounted' = TRUE
    /\ gen' = gen + 1
    /\ filters' = InitialFilters
    /\ \E threw \in BOOLEAN :
        /\ connectWebSocket(sockets, Append(ws, 0), FALSE, gen + 1, threw)
        /\ Note("mount", gen + 1, IF threw THEN "throw" ELSE "socket")
    /\ loading' = SetGraphLoading(TRUE)
    /\ error' = SetGraphError(Null)
    /\ Call("getGraph")
    /\ selectedNode' = NullValue
    /\ hoveredNode' = NullValue
    /\ transform' = zoomIdentity
    /\ LET data == filteredData(graphData, InitialFilters)
       IN  IF ~loading /\ ~Truthy(error)
           THEN /\ graphData' = Initialized(graphData, data)
                /\ simulation' =
                        EffectCleanup(forceSimulation(data, InitialDimensions))
                /\ dimensions' = ContainerSize
           ELSE /\ simulation' = NullValue
                /\ dimensions' = InitialDimensions
                /\ UNCHANGED graphData
    /\ effectPending' = FALSE
    /\ scene' = EmptyScene
    /\ UNCHANGED <<timers, scheduled, logOn, log, batched, mainVars, discarded,
                   drag,
                   images>>

\* ws.onopen without its ws.send call.
onopen_NoSubscribe(s) ==
    /\ sockets[s].readyState = "CONNECTING"
    /\ sockets' = [sockets EXCEPT ![s].readyState = "OPEN", ![s].opens = @ + 1]
    /\ UNCHANGED <<mounted, gen>>
    /\ setIsConnected(sockets[s].gen, TRUE)
    /\ Note("onopen", s, Absent)
    /\ UNCHANGED <<storeVars, filters, pending, ws, timers, scheduled, logOn,
                   log>>
    /\ render

\* ws.onopen of socket s: setIsConnected(true), then ws.send(subscribe) on
\* the socket that the instance's ws variable holds.
onopen(s) ==
    /\ sockets[s].readyState = "CONNECTING"
    /\ LET g == sockets[s].gen
           opened == [sockets EXCEPT ![s].readyState = "OPEN",
                                     ![s].opens = @ + 1]
           target == ws[g]
       IN  /\ sockets' =
                IF target # 0 /\ opened[target].readyState = "OPEN"
                THEN [opened EXCEPT ![target].subscribes = @ + 1]
                ELSE opened
           /\ UNCHANGED <<mounted, gen>>
           /\ setIsConnected(g, TRUE)
    /\ Note("onopen", s, Absent)
    /\ UNCHANGED <<storeVars, filters, pending, ws, timers, scheduled, logOn,
                   log>>
    /\ render

\* The switch of ws.onmessage without its node_removed case.
MessageAction_NoRemove(m) ==
    CASE TypeOf(m) = "node_added" ->
            [type |-> "ADD_GRAPH_NODE", payload |-> DataOf(m)]
      [] TypeOf(m) = "link_added" ->
            [type |-> "ADD_GRAPH_LINK", payload |-> DataOf(m)]
      [] TypeOf(m) = "link_removed" ->
            [type |-> "REMOVE_GRAPH_LINK", payload |-> DataOf(m)]
      [] OTHER -> [type |-> "none", payload |-> Absent]

\* The dispatch that the switch of ws.onmessage makes for a message.
MessageAction(m) ==
    CASE TypeOf(m) = "node_added" ->
            [type |-> "ADD_GRAPH_NODE", payload |-> DataOf(m)]
      [] TypeOf(m) = "node_removed" ->
            [type |-> "REMOVE_GRAPH_NODE",
             payload |-> IF Has(m.data, "nodeId")
                         THEN m.data.nodeId ELSE NoId]
      [] TypeOf(m) = "link_added" ->
            [type |-> "ADD_GRAPH_LINK", payload |-> DataOf(m)]
      [] TypeOf(m) = "link_removed" ->
            [type |-> "REMOVE_GRAPH_LINK", payload |-> DataOf(m)]
      [] OTHER -> [type |-> "none", payload |-> Absent]

\* A switch of ws.onmessage in which no message takes the graph_updated
\* case.
CaseGraphUpdated_Never(m) ==
    TypeOf(m) = "graph_updated" /\ TypeOf(m) = "none"

\* case 'graph_updated' of the switch of ws.onmessage.
CaseGraphUpdated(m) == TypeOf(m) = "graph_updated"

\* Whether the try block throws a TypeError on the parsed value: message.type
\* of null, or message.data.nodeId of an envelope without data.
ThrowsTypeError(p) ==
    p.null \/ (TypeOf(p.value) = "node_removed" /\ ~Has(p.value, "data"))

\* A catch block that closes the socket on a message it cannot handle.
CatchMessageError_Closes(s) ==
    /\ sockets' = [sockets EXCEPT ![s].readyState = "CLOSING"]
    /\ UNCHANGED <<storeVars, pending, log, mounted, gen, ws, timers,
                   scheduled, isConnected>>

\* The catch block of ws.onmessage: the error is logged.
CatchMessageError(s) == UNCHANGED <<storeVars, pending, log, connVars>>

\* ws.onmessage of socket s for an event whose data is the text e.
onmessage(s, e) ==
    /\ sockets[s].readyState = "OPEN"
    /\ LET p == JSONParse(e)
           m == p.value
       IN  IF p.threw \/ ThrowsTypeError(p)
           THEN /\ CatchMessageError(s)
                /\ Note("caught", e, s)
           ELSE /\ IF CaseGraphUpdated(m)
                   THEN /\ CanCall
                        /\ fetchGraphDataStart
                        /\ UNCHANGED log
                   ELSE /\ LET a == MessageAction(m)
                           IN  /\ a.type # "none" => CanLog
                               /\ graphData' =
                                    Reduce(graphData, a.type, a.payload)
                               /\ IF a.type # "none"
                                  THEN Arrive(a.type, a.payload)
                                  ELSE UNCHANGED log
                        /\ UNCHANGED <<loading, error, pending>>
                /\ Note(TypeOf(m), DataOf(m), s)
                /\ UNCHANGED connVars
    /\ UNCHANGED <<filters, logOn>>
    /\ render

\* setTimeout(connectWebSocket, 5000) in the onclose of socket s.
ScheduleReconnect(s) ==
    /\ timers' = timers \cup
            {[id |-> scheduled + 1, gen |-> sockets[s].gen, by |-> s,
              delay |-> ReconnectDelay, elapsed |-> 0]}
    /\ scheduled' = scheduled + 1

\* ws.onerror that schedules a reconnect of its own, before the one that
\* onclose schedules.
onerror_AlsoReconnects(s) ==
    /\ sockets[s].readyState \in {"CONNECTING", "OPEN", "CLOSING"}
    /\ ~sockets[s].errored
    /\ sockets' = [sockets EXCEPT ![s].readyState = "CLOSED",
                                  ![s].errored = TRUE]
    /\ UNCHANGED <<mounted, gen>>
    /\ setIsConnected(sockets[s].gen, FALSE)
    /\ ScheduleReconnect(s)
    /\ Note("onerror", s, Absent)
    /\ UNCHANGED <<storeVars, filters, pending, ws, logOn, log>>
    /\ render

\* ws.onerror of socket s: the connection has failed, and the socket's
\* close event follows.
onerror(s) ==
    /\ sockets[s].readyState \in {"CONNECTING", "OPEN", "CLOSING"}
    /\ ~sockets[s].errored
    /\ sockets' = [sockets EXCEPT ![s].readyState = "CLOSED",
                                  ![s].errored = TRUE]
    /\ UNCHANGED <<mounted, gen>>
    /\ setIsConnected(sockets[s].gen, FALSE)
    /\ Note("onerror", s, Absent)
    /\ UNCHANGED <<storeVars, filters, pending, ws, timers, scheduled, logOn,
                   log>>
    /\ render

\* ws.onclose that schedules the reconnect and leaves isConnected as it is.
onclose_StaysConnected(s) ==
    /\ ~sockets[s].closed
    /\ sockets' = [sockets EXCEPT ![s].readyState = "CLOSED",
                                  ![s].closed = TRUE]
    /\ UNCHANGED <<mounted, gen, isConnected>>
    /\ ScheduleReconnect(s)
    /\ Note("onclose", s, Absent)
    /\ UNCHANGED <<storeVars, filters, pending, ws, logOn, log>>
    /\ render

\* ws.onclose of socket s: fired once per socket, after an error, after
\* ws.close(), or when the peer closes.
onclose(s) ==
    /\ ~sockets[s].closed
    /\ sockets' = [sockets EXCEPT ![s].readyState = "CLOSED",
                                  ![s].closed = TRUE]
    /\ UNCHANGED <<mounted, gen>>
    /\ setIsConnected(sockets[s].gen, FALSE)
    /\ ScheduleReconnect(s)
    /\ Note("onclose", s, Absent)
    /\ UNCHANGED <<storeVars, filters, pending, ws, logOn, log>>
    /\ render

\* The time to the next timer's deadline, or TickMs when that is nearer.
TickStep ==
    LET left == {t.delay - t.elapsed : t \in timers}
        next == CHOOSE x \in left : \A y \in left : x <= y
    IN  IF next < TickMs THEN next ELSE TickMs

\* Time passes, by at most TickMs and up to the next timer's deadline.
tick ==
    /\ timers # {}
    /\ \A t \in timers : t.elapsed < t.delay
    /\ timers' = {[t EXCEPT !.elapsed = @ + TickStep] : t \in timers}
    /\ UNCHANGED <<storeVars, filters, pending, mounted, gen, ws, sockets,
                   scheduled, isConnected, logOn, log, last>>
    /\ render

\* A reconnect timer that has run its delay calls connectWebSocket.
reconnect(t) ==
    /\ t \in timers
    /\ t.elapsed >= t.delay
    /\ timers' = timers \ {t}
    /\ UNCHANGED <<mounted, gen, scheduled>>
    /\ \E threw \in BOOLEAN :
        /\ connectWebSocket([sockets EXCEPT ![t.by].attempts = @ + 1], ws,
                            isConnected, t.gen, threw)
        /\ Note("reconnect", t, IF threw THEN "throw" ELSE "socket")
    /\ UNCHANGED <<storeVars, filters, pending, logOn, log>>
    /\ render

\* Tearing the view down: the cleanup of the WebSocket effect and the
\* cleanup of the simulation effect; the svg element goes with the view.
cleanup ==
    /\ mounted
    /\ mounted' = FALSE
    /\ LET s == ws[gen]
       IN  IF s # 0 /\ sockets[s].readyState = "OPEN"
           THEN sockets' = [sockets EXCEPT ![s].readyState = "CLOSING"]
           ELSE UNCHANGED sockets
    /\ simulation' = EffectCleanup(simulation)
    /\ effectPending' = FALSE
    /\ scene' = EmptyScene
    /\ Note("cleanup", gen, Absent)
    /\ UNCHANGED <<storeVars, filters, pending, gen, ws, timers, scheduled,
                   isConnected, logOn, log, batched, mainVars, stateVars,
                   discarded,
                   drag, images>>

\* --------------------------------------------------- the main process

\* Everything the renderer holds; the main process touches none of it.
rendererVars ==
    <<storeVars, filters, pending, connVars, logOn, log, batched, viewVars>>

\* spawn: the child process.  alive: the operating system still runs it;
\* killed: the ChildProcess's killed property; ignoresTerm: whether the
\* program handles SIGTERM without exiting; signals: the signals delivered.
spawn(pid, started, ignoresTerm) ==
    [pid |-> pid, alive |-> started, killed |-> FALSE,
     ignoresTerm |-> ignoresTerm, signals |-> <<>>]

\* ChildProcess.kill(signal): a signal is delivered to a process that still
\* runs, and delivering it sets the killed property; for a process that has
\* exited or never started nothing is sent and killed is left as it is.
kill(p, signal) ==
    IF p.alive
    THEN [p EXCEPT !.signals = Append(@, signal), !.killed = TRUE]
    ELSE p

\* startPythonBackend: spawns the backend and stores it in pythonProcess;
\* a spawn that fails ('error') leaves a ChildProcess that never ran.
startPythonBackend(started, ignoresTerm) ==
    /\ \/ pythonProcess = NullValue /\ 1 <= MaxBackends
       \/ pythonProcess # NullValue /\ pythonProcess.pid < MaxBackends
    /\ LET pid == IF pythonProcess = NullValue THEN 1
                  ELSE pythonProcess.pid + 1
       IN  /\ pythonProcess' = spawn(pid, started, ignoresTerm)
           /\ Note("startPythonBackend", ignoresTerm, pid)
    /\ UNCHANGED <<killTimers, childWindows, windows, rendererVars>>

\* stopPythonBackend: SIGTERM now and a timeout of 5 seconds.
stopPythonBackend ==
    /\ IF pythonProcess # NullValue /\ ~pythonProcess.killed
       THEN /\ pythonProcess' = kill(pythonProcess, "SIGTERM")
            /\ killTimers' = killTimers \cup
                   {[by |-> pythonProcess.pid, elapsed |-> 0,
                     delay |-> ForceKillDelay]}
       ELSE UNCHANGED <<pythonProcess, killTimers>>
    /\ Note("stopPythonBackend", Absent, Absent)
    /\ UNCHANGED <<childWindows, windows, rendererVars>>

\* Time passes in the main process while no timeout is due.
mainTick ==
    /\ killTimers # {}
    /\ \A t \in killTimers : t.elapsed < t.delay
    /\ killTimers' = {[t EXCEPT !.elapsed = @ + TickMs] : t \in killTimers}
    /\ UNCHANGED <<pythonProcess, childWindows, windows, rendererVars, last>>

\* The timeout set by stopPythonBackend runs.
forceKill(t) ==
    /\ t \in killTimers
    /\ t.elapsed >= t.delay
    /\ killTimers' = killTimers \ {t}
    /\ IF pythonProcess # NullValue /\ ~pythonProcess.killed
       THEN pythonProcess' = kill(pythonProcess, "SIGKILL")
       ELSE UNCHANGED pythonProcess
    /\ Note("forceKill", t.by, Absent)
    /\ UNCHANGED <<childWindows, windows, rendererVars>>

\* The backend exits ('close'): by itself or on SIGTERM unless it ignores
\* SIGTERM, and on SIGKILL in any case.
Exits(p) ==
    \/ ~p.ignoresTerm
    \/ \E i \in 1..Len(p.signals) : p.signals[i] = "SIGKILL"

backendClose ==
    /\ pythonProcess # NullValue
    /\ pythonProcess.alive
    /\ Exits(pythonProcess)
    /\ pythonProcess' = [pythonProcess EXCEPT !.alive = FALSE]
    /\ Note("backendClose", pythonProcess.pid, Absent)
    /\ UNCHANGED <<killTimers, childWindows, windows, rendererVars>>

\* new BrowserWindow: an open window; closing: close() has been called on
\* it; destroyed: it has closed ('closed' has been emitted).
BrowserWindow(name) == [name |-> name, closing |-> FALSE, destroyed |-> FALSE]

WindowIds == 1..Len(childWindows)

\* window.close() asks the window to close.
close(ws0, w) == [ws0 EXCEPT ![w].closing = TRUE]

\* createChildWindow(name): the new window is stored under its name.
createChildWindow(name) ==
    /\ Len(childWindows) < MaxWindows
    /\ childWindows' = Append(childWindows, BrowserWindow(name))
    /\ windows' = [windows EXCEPT ![name] = Len(childWindows) + 1]
    /\ Note("createChildWindow", name, Len(childWindows) + 1)
    /\ UNCHANGED <<pythonProcess, killTimers, rendererVars>>

\* closeWindow(name): closes the window stored under the name, if any.
closeWindow(name) ==
    /\ LET window == windows[name]
       IN  IF window # NoWindow /\ ~childWindows[window].destroyed
           THEN childWindows' = close(childWindows, window)
           ELSE UNCHANGED childWindows
    /\ Note("closeWindow", name, windows[name])
    /\ UNCHANGED <<windows, pythonProcess, killTimers, rendererVars>>

\* closeAllChildWindows: closes every window of the map, then clears it.
closeAllChildWindows ==
    /\ childWindows' =
           [w \in WindowIds |->
               IF /\ \E name \in WindowNames : windows[name] = w
                  /\ ~childWindows[w].destroyed
               THEN [childWindows[w] EXCEPT !.closing = TRUE]
               ELSE childWindows[w]]
    /\ windows' = [name \in WindowNames |-> NoWindow]
    /\ Note("closeAllChildWindows", Absent, Absent)
    /\ UNCHANGED <<pythonProcess, killTimers, rendererVars>>

\* The window's 'closed' event, after close() or after the user closed it:
\* the listener createChildWindow registered deletes the entry of the name.
closed(w) ==
    /\ w \in WindowIds
    /\ ~childWindows[w].destroyed
    /\ childWindows' = [childWindows EXCEPT ![w].destroyed = TRUE]
    /\ windows' = [windows EXCEPT ![childWindows[w].name] = NoWindow]
    /\ Note("closed", w, childWindows[w].name)
    /\ UNCHANGED <<pythonProcess, killTimers, rendererVars>>

\* ---------------------------------------------------------- specification

InitialLast ==
    [op |-> "init", arg |-> Absent, ret |-> Absent, prev |-> EmptyGraph,
     prevError |-> Null, prevLoading |-> FALSE,
     prevPending |-> [op \in RequestOps |-> 0], prevLog |-> 0,
     prevConnected |-> FALSE, prevScheduled |-> 0, prevView |-> NullValue]

\* The view before its first mount.
InitialView ==
    /\ dimensions = InitialDimensions
    /\ selectedNode = NullValue
    /\ hoveredNode = NullValue
    /\ transform = zoomIdentity
    /\ simulation = NullValue
    /\ discarded = {}
    /\ effectPending = FALSE
    /\ scene = EmptyScene
    /\ drag = NullValue
    /\ images = {}

\* The main process before app 'ready': no backend, no child window.
InitialMain ==
    /\ pythonProcess = NullValue
    /\ killTimers = {}
    /\ childWindows = <<>>
    /\ windows = [name \in WindowNames |-> NoWindow]

InitState ==
    /\ graphData = EmptyGraph
    /\ loading = FALSE
    /\ error = Null
    /\ filters = InitialFilters
    /\ pending = [op \in RequestOps |-> 0]
    /\ mounted = FALSE
    /\ gen = 0
    /\ ws = <<>>
    /\ sockets = <<>>
    /\ timers = {}
    /\ scheduled = 0
    /\ isConnected = FALSE
    /\ log = <<>>
    /\ last = InitialLast
    /\ InitialView
    /\ InitialMain

Init == InitState /\ logOn = FALSE /\ batched = TRUE

\* The filters set while the store changes: everything shown, or files only.
StoreFilters == {InitialFilters, [InitialFilters EXCEPT !.nodeTypes = {"File"}]}

\* The store under the push messages of a channel that stays up, the
\* refreshes they trigger, and the view's filter controls.
Next ==
    \/ mount
    \/ \E s \in SocketIds : onopen(s)
    \/ \E s \in SocketIds, m \in Messages : onmessage(s, Json(m))
    \/ refreshGraph
    \/ \E r \in GetGraphResponses : fetchGraphDataSettle(r)
    \/ \E f \in StoreFilters : setFilters(f)

Spec == Init /\ [][Next]_vars

\* The store under the request/response operations alone.
RequestNext ==
    \/ mount
    \/ refreshGraph
    \/ \E r \in GetGraphResponses : fetchGraphDataSettle(r)
    \/ \E n \in NodeIds : pruneTree(n)
    \/ \E r \in PruneResponses : pruneTreeSettle(r)
    \/ clearGraph
    \/ \E r \in ClearResponses : clearGraphSettle(r)
    \/ \E op \in QueryOps : query(op)
    \/ \E op \in QueryOps, r \in QueryResponses : querySettle(op, r)
    \/ getGraphStats
    \/ \E r \in StatsResponses : getGraphStatsSettle(r)

RequestSpec == Init /\ [][RequestNext]_vars

\* The store with the arrival log kept: refresh responses and push deltas
\* racing each other.
RaceInit == InitState /\ logOn = TRUE /\ batched = TRUE

\* The messages and the responses that race: the deltas that build and take
\* apart the first link of the chain, and refreshes that succeed in full,
\* succeed without links, or fail.
RaceMessages ==
    {Message("graph_updated", Absent),
     Message("node_added", Node(1, "LintError")),
     Message("node_added", Node(2, "File")),
     Message("node_removed", [nodeId |-> 1]),
     Message("link_added", Link(1, 2, "CONTAINS")),
     Message("link_removed", Link(1, 2, "CONTAINS"))}

RaceResponses ==
    {Resolved(Absent, TRUE, FullGraph.nodes, TRUE, FullGraph.links, FALSE),
     Resolved(Absent, TRUE, FullGraph.nodes, FALSE, {}, FALSE),
     ErrorResponse,
     Rejected("")}

RaceNext ==
    \/ mount
    \/ \E s \in SocketIds : onopen(s)
    \/ \E s \in SocketIds, m \in RaceMessages : onmessage(s, Json(m))
    \/ refreshGraph
    \/ \E r \in RaceResponses : fetchGraphDataSettle(r)

RaceSpec == RaceInit /\ [][RaceNext]_vars

\* The push channel over its whole life: mounts and teardowns of the view,
\* the socket events, the clock and the reconnect timers.
ChannelNext ==
    \/ mount
    \/ cleanup
    \/ \E s \in SocketIds : onopen(s)
    \/ \E s \in SocketIds : onerror(s)
    \/ \E s \in SocketIds : onclose(s)
    \/ tick
    \/ \E t \in timers : reconnect(t)

ChannelSpec == Init /\ [][ChannelNext]_vars

\* The push channel delivering frames of every shape: well-formed
\* envelopes that build a small graph, and text that is not JSON, null,
\* envelopes without a type or of an unknown type, and deltas with required
\* fields missing; sockets fail and are replaced meanwhile.
DeliveryMessages ==
    {Message("graph_updated", Absent),
     Message("node_added", Node(1, "File")),
     Message("node_added", Node(2, "File")),
     Message("link_added", Link(1, 2, "CONTAINS"))}

DeliveryEvents ==
    {NotJson, JsonNull}
        \cup {Json(m) : m \in UntypedMessages \cup UnknownMessages
                            \cup MalformedDeltas \cup DeliveryMessages}

DeliveryResponses ==
    {Resolved(Absent, TRUE, FullGraph.nodes, TRUE, FullGraph.links, FALSE),
     ErrorResponse}

DeliveryNext ==
    \/ mount
    \/ \E s \in SocketIds : onopen(s)
    \/ \E s \in SocketIds, e \in DeliveryEvents : onmessage(s, e)
    \/ \E r \in DeliveryResponses : fetchGraphDataSettle(r)
    \/ \E s \in SocketIds : onerror(s)
    \/ \E s \in SocketIds : onclose(s)
    \/ tick
    \/ \E t \in timers : reconnect(t)

DeliverySpec == Init /\ [][DeliveryNext]_vars

\* The view over a snapshot that a refresh has installed: the filter
\* controls and the simulation effect. The snapshots hold all or all but
\* one of five nodes (a File, a Class, a LintError without a path, a node of
\* an unknown type without properties, and a File whose id is falsy) with
\* six links among six node ids.
FilterNodes ==
    {[id |-> 1, type |-> "File",
      properties |-> [name |-> "Main", path |-> "lib"]],
     [id |-> 2, type |-> "Class",
      properties |-> [name |-> "util", path |-> "Main"]],
     [id |-> 3, type |-> "LintError", properties |-> [name |-> "util"]],
     [id |-> 4, type |-> "Module"],
     [id |-> FalsyId, type |-> "File",
      properties |-> [name |-> "util", path |-> "xy"]]}

FilterLinks ==
    {Link(1, 2, "CONTAINS"), Link(2, 1, "CALLS"), Link(2, 3, "HAS_ERROR"),
     Link(4, 1, "CALLS"), Link(3, 5, "CONTAINS"),
     Link(FalsyId, 1, "CONTAINS")}

FilterSnapshots ==
    {[nodes |-> ns, links |-> FilterLinks] :
        ns \in {FilterNodes \ {n} : n \in FilterNodes} \cup {FilterNodes}}

FilterCriteria ==
    [nodeTypes : {NodeTypes, {"File", "Class"}, {"File"}},
     showErrors : BOOLEAN, showCalls : BOOLEAN,
     searchTerm : {"", "main", "AI", "ib", "xy"}]

\* The view mounted over one of the snapshots, before the first run of the
\* simulation effect.
ShownInit(snapshots) ==
    /\ graphData \in snapshots
    /\ loading = FALSE
    /\ error = Null
    /\ filters = InitialFilters
    /\ pending = [op \in RequestOps |-> 0]
    /\ mounted = TRUE
    /\ gen = 1
    /\ ws = <<0>>
    /\ sockets = <<>>
    /\ timers = {}
    /\ scheduled = 0
    /\ isConnected = FALSE
    /\ logOn = FALSE
    /\ log = <<>>
    /\ last = InitialLast
    /\ batched = TRUE
    /\ InitialMain
    /\ dimensions = InitialDimensions
    /\ selectedNode = NullValue
    /\ hoveredNode = NullValue
    /\ transform = zoomIdentity
    /\ simulation = NullValue
    /\ discarded = {}
    /\ effectPending = TRUE
    /\ scene = EmptyScene
    /\ drag = NullValue
    /\ images = {}

FilterInit == ShownInit(FilterSnapshots)

FilterNext ==
    \/ \E f \in FilterCriteria : setFilters(f)
    \/ simulationEffect

FilterSpec == FilterInit /\ [][FilterNext]_vars

\* The view over a living store: refreshes, among them one whose response
\* holds a link to a node it does not hold, push deltas, the filter
\* controls, and the simulation effect.
PartlyDanglingGraph ==
    [nodes |-> {Node(1, "File"), Node(2, "LintError")},
     links |-> {Link(1, 2, "CONTAINS"), Link(2, MaxNodeId + 1, "CONTAINS")}]

ViewMessages ==
    {Message("graph_updated", Absent),
     Message("node_added", Node(2, "File")),
     Message("node_removed", [nodeId |-> 1]),
     Message("link_added", Link(2, 1, "CALLS")),
     Message("link_removed", Link(1, 2, "CONTAINS"))}

ViewResponses ==
    {Resolved(Absent, TRUE, g.nodes, TRUE, g.links, FALSE) :
        g \in {PartlyDanglingGraph, DanglingGraph}}
        \cup {ErrorResponse}

ViewNext ==
    \/ mount
    \/ \E s \in SocketIds : onopen(s)
    \/ \E s \in SocketIds, m \in ViewMessages : onmessage(s, Json(m))
    \/ \E r \in ViewResponses : fetchGraphDataSettle(r)
    \/ \E f \in FilterChoices : setFilters(f)
    \/ simulationEffect

ViewSpec == Init /\ [][ViewNext]_vars

\* Refreshes and prunes overlapping each other, with every getGraph call
\* settled in the end: the backend answers or the call is rejected.
RefreshResponses ==
    {Resolved(Absent, TRUE, FullGraph.nodes, TRUE, FullGraph.links, FALSE),
     ErrorResponse, Rejected("ipc failed"), Rejected("")}

RefreshNext ==
    \/ mount
    \/ refreshGraph
    \/ \E r \in RefreshResponses : fetchGraphDataSettle(r)
    \/ \E n \in NodeIds : pruneTree(n)
    \/ \E r \in RefreshResponses : pruneTreeSettle(r)

RefreshSpec ==
    /\ Init
    /\ [][RefreshNext]_vars
    /\ WF_vars(\E r \in RefreshResponses : fetchGraphDataSettle(r))

\* The life of the view's simulation: mounts and teardowns, refreshes that
\* succeed or fail, filter and size changes, and drags that overlap them,
\* whether or not the two dispatches of a settling refresh are rendered
\* together.
LifecycleResponses ==
    {Resolved(Absent, TRUE, FullGraph.nodes, TRUE, FullGraph.links, FALSE),
     ErrorResponse}

LifecycleFilters ==
    {InitialFilters, [InitialFilters EXCEPT !.searchTerm = "main"]}

LifecycleInit == InitState /\ logOn = FALSE /\ batched \in BOOLEAN

LifecycleNext ==
    \/ mount
    \/ cleanup
    \/ \E r \in LifecycleResponses : fetchGraphDataSettle(r)
    \/ \E f \in LifecycleFilters : setFilters(f)
    \/ \E d \in Sizes : resize(d)
    \/ simulationEffect
    \/ simulationEnd
    \/ \E n \in SceneNodes : dragstarted(n)
    \/ \E p \in Points : dragged(p)
    \/ dragended

LifecycleSpec == LifecycleInit /\ [][LifecycleNext]_vars

\* The pointer over the drawn scene: the snapshots and filters of the filter
\* specification, with the pointer entering, leaving and clicking the nodes'
\* circles.
HighlightNext ==
    \/ \E f \in FilterChoices : setFilters(f)
    \/ simulationEffect
    \/ \E n \in SceneNodes : mouseover(n)
    \/ mouseout
    \/ \E n \in SceneNodes : click(n)

HighlightSpec == FilterInit /\ [][HighlightNext]_vars

\* The view mounted over the full snapshot.
InteractionInit == ShownInit({FullGraph})

\* The export control used at a drawn scene with a selected, a hovered and
\* a dragged node, and the images of the raster exports loading.
ExportNext ==
    \/ \E d \in Sizes : resize(d)
    \/ simulationEffect
    \/ simulationEnd
    \/ \E n \in SceneNodes : click(n)
    \/ \E n \in SceneNodes : mouseover(n)
    \/ \E n \in SceneNodes : dragstarted(n)
    \/ dragended
    \/ \E format \in Formats : exportGraph(format)
    \/ \E img \in images : imageOnload(img)

ExportSpec == InteractionInit /\ [][ExportNext]_vars

\* The details panel's focus button used at a drawn scene: nodes are
\* selected by clicks, hidden by the filter controls, moved by the
\* simulation and pinned by drags, and the user zooms.
FocusFilters ==
    {InitialFilters, [InitialFilters EXCEPT !.searchTerm = "ib"]}

\* The ids that the details panel may call onFocus with: the ids of the
\* snapshot and one that no node has.
FocusIds == NodeIds \cup {MaxNodeId + 1}

FocusNext ==
    \/ \E f \in FocusFilters : setFilters(f)
    \/ simulationEffect
    \/ \E n \in SceneNodes, p \in Points : simulationTick(n, p)
    \/ \E n \in SceneNodes : click(n)
    \/ closeDetails
    \/ \E n \in SceneNodes : dragstarted(n)
    \/ dragended
    \/ \E t \in Transforms : zoomed(t)
    \/ \E i \in FocusIds : focusOnNode(i)

FocusSpec == InteractionInit /\ [][FocusNext]_vars

\* Teardowns of the view while the socket it created at mount is still
\* connecting or already open, with the server's messages arriving on the
\* sockets afterwards. Every socket here is created by a mount, so before
\* the teardown of its hook instance.
TeardownMessages ==
    {Message("graph_updated", Absent),
     Message("node_added", Node(1, "File")),
     Message("link_removed", Link(1, 2, "CONTAINS"))}

TeardownNext ==
    \/ mount
    \/ cleanup
    \/ \E s \in SocketIds : onopen(s)
    \/ \E s \in SocketIds, m \in TeardownMessages : onmessage(s, Json(m))
    \/ \E r \in LifecycleResponses : fetchGraphDataSettle(r)

TeardownSpec == Init /\ [][TeardownNext]_vars

\* The main process and its backend: start, stop, the clock, the timeout.
BackendNext ==
    \/ \E started, ignoresTerm \in BOOLEAN :
           startPythonBackend(started, ignoresTerm)
    \/ stopPythonBackend
    \/ mainTick
    \/ \E t \in killTimers : forceKill(t)
    \/ backendClose

BackendSpec == Init /\ [][BackendNext]_vars

\* The window manager and its child windows.
WindowNext ==
    \/ \E name \in WindowNames : createChildWindow(name)
    \/ \E name \in WindowNames : closeWindow(name)
    \/ closeAllChildWindows
    \/ \E w \in WindowIds : closed(w)

WindowSpec == Init /\ [][WindowNext]_vars

\* ----------------------------------------------------------------- claims

\* Every link of g has both its endpoints among the nodes of g.
LinkInvariant(g) ==
    \A l \in g.links :
        l.source \in IdsOf(g.nodes) /\ l.target \in IdsOf(g.nodes)

\* C1: a push delta (node_added, node_removed, link_added, link_removed)
\* applied to a snapshot in which every link has both endpoints present
\* yields a snapshot in which every link has both endpoints present; so the
\* same holds after every finite sequence of deltas.
C1_DeltasKeepLinkInvariant ==
    (last.op \in DeltaTypes /\ LinkInvariant(last.prev))
        => LinkInvariant(graphData)

\* C1 witness: a node_removed delta took away a node that links referenced.
C1_Witness ==
    /\ last.op = "node_removed"
    /\ LinkInvariant(last.prev)
    /\ \E l \in last.prev.links :
          l.source = last.arg.nodeId \/ l.target = last.arg.nodeId
    /\ graphData.nodes # {}

\* C2: a node_removed delta for node id n removes n from the node set and
\* every link whose source or target is n, and leaves every other node and
\* link as it was, whatever the filter criteria are.
C2_NodeRemoved ==
    last.op = "node_removed" =>
        /\ graphData.nodes = {n \in last.prev.nodes : n.id # last.arg.nodeId}
        /\ graphData.links =
              {l \in last.prev.links :
                  l.source # last.arg.nodeId /\ l.target # last.arg.nodeId}

\* C2 witness: under a filter that shows Files only, a LintError node that a
\* link referenced was removed, and another node stayed.
C2_Witness ==
    /\ last.op = "node_removed"
    /\ filters.nodeTypes = {"File"}
    /\ \E n \in last.prev.nodes :
          n.id = last.arg.nodeId /\ n.type = "LintError"
    /\ \E l \in last.prev.links : l.source = last.arg.nodeId
    /\ graphData.nodes # {}
    /\ graphData.links = {}

\* The snapshots that are one whole result of a refresh, prune or clear.
WholeResults ==
    {EmptyGraph}
        \cup {[nodes |-> IF r.hasNodes THEN r.nodes ELSE {},
               links |-> IF r.hasLinks THEN r.links ELSE {}] :
                  r \in GetGraphResponses}
        \cup {[nodes |-> r.nodes, links |-> r.links] : r \in PruneResponses}

\* C3: when a refresh, prune or clear has completed successfully and nothing
\* ran after it, the snapshot is that operation's whole result (refresh: the
\* response's nodes and links, each empty when missing; prune: the response;
\* clear: the empty graph); and the snapshot is at all times one whole
\* result, never part of one and part of another.
C3_ReplaceIsWhole ==
    /\ (last.op = "getGraph" /\ ~Throws(last.arg)) =>
          /\ graphData.nodes =
                (IF last.arg.hasNodes THEN last.arg.nodes ELSE {})
          /\ graphData.links =
                (IF last.arg.hasLinks THEN last.arg.links ELSE {})
    /\ (last.op = "pruneTree" /\ ~Throws(last.arg)) =>
          graphData = [nodes |-> last.arg.nodes, links |-> last.arg.links]
    /\ (last.op = "clearGraph" /\ last.arg.kind = "resolve"
            /\ last.arg.success) =>
          graphData = EmptyGraph
    /\ graphData \in WholeResults

\* C3 witness: a refresh whose response carries nodes but no links replaced
\* a snapshot that had links.
C3_Witness ==
    /\ last.op = "getGraph"
    /\ ~Throws(last.arg)
    /\ last.arg.hasNodes /\ ~last.arg.hasLinks
    /\ last.prev.links # {}
    /\ graphData = [nodes |-> last.arg.nodes, links |-> {}]

\* C4 as stated: for every request/response operation, a response that
\* carries an error field sets the error status to a non-null message and
\* leaves the snapshot unchanged.
C4_AsStated ==
    (last.op \in RequestOps /\ last.arg.kind = "resolve"
        /\ last.arg.error # Absent) =>
        (error # Null /\ graphData = last.prev)

\* C4 amended: for fetchGraph and pruneTree, a response whose error field is
\* truthy sets the error status to a non-null message and leaves the
\* snapshot unchanged. clearGraph and the query operations never change the
\* error status, and the query operations never change the snapshot: a
\* response whose error field is truthy makes a query return its fallback
\* value, and clearGraph goes by the success flag alone, leaving the
\* snapshot unchanged when the flag is not set.
C4_ErrorResponses ==
    /\ (last.op \in {"getGraph", "pruneTree"} /\ last.arg.kind = "resolve"
            /\ Truthy(last.arg.error)) =>
          (error = last.arg.error /\ error # Null /\ graphData = last.prev)
    /\ last.op \in QueryOps =>
          /\ error = last.prevError
          /\ graphData = last.prev
          /\ (last.arg.kind = "resolve" /\ Truthy(last.arg.error)) =>
                last.ret = Fallback(last.op)
    /\ last.op = "clearGraph" =>
          /\ error = last.prevError
          /\ (last.arg.kind = "resolve" /\ ~last.arg.success) =>
                graphData = last.prev

\* C4 witness: a prune answered with an error left a non-empty snapshot as
\* it was and set the error status.
C4_Witness ==
    /\ last.op = "pruneTree"
    /\ last.arg.kind = "resolve" /\ Truthy(last.arg.error)
    /\ last.prevError = Null
    /\ error = "boom"
    /\ graphData = FullGraph

\* One arrival applied as a whole operation: a refresh response that
\* succeeded replaces the snapshot, one that failed leaves it, and a delta
\* is applied by the store.
ApplyArrival(g, e) ==
    IF e.op = "getGraph"
    THEN IF e.arg.kind = "reject" \/ Truthy(e.arg.error)
         THEN g
         ELSE [nodes |-> IF e.arg.hasNodes THEN e.arg.nodes ELSE {},
               links |-> IF e.arg.hasLinks THEN e.arg.links ELSE {}]
    ELSE Reduce(g, e.op, e.arg)

\* The snapshot that the arrivals yield, applied one after the other to g.
RECURSIVE Replay(_, _)
Replay(g, arrivals) ==
    IF arrivals = <<>>
    THEN g
    ELSE Replay(ApplyArrival(g, Head(arrivals)), Tail(arrivals))

\* C5: however refresh responses and push deltas interleave, the snapshot is
\* the one that results from applying the operations one by one in their
\* order of arrival; so when a successful refresh response arrived last the
\* snapshot is that response, whole, whatever was requested or applied
\* before it.
C5_ArrivalOrder ==
    /\ graphData = Replay(EmptyGraph, log)
    /\ (log # <<>> /\ log[Len(log)].op = "getGraph"
            /\ log[Len(log)].arg.kind = "resolve"
            /\ ~Truthy(log[Len(log)].arg.error)) =>
          /\ graphData.nodes =
                (IF log[Len(log)].arg.hasNodes
                 THEN log[Len(log)].arg.nodes ELSE {})
          /\ graphData.links =
                (IF log[Len(log)].arg.hasLinks
                 THEN log[Len(log)].arg.links ELSE {})

\* C5 witness: two refreshes were in flight together with a delta; the
\* delta arrived first, then the first of the two responses, which replaced
\* the snapshot the delta had made while the other call was still awaited.
C5_Witness ==
    /\ Len(log) = 2
    /\ log[1].op = "ADD_GRAPH_NODE"
    /\ log[2].op = "getGraph"
    /\ last.op = "getGraph"
    /\ last.prev.nodes # {}
    /\ pending["getGraph"] = 1
    /\ graphData = FullGraph

\* The reconnect timers pending that the close of socket s set.
TimersBy(s) == {t \in timers : t.by = s}

\* Whether the mounted hook instance is the one that owns socket s.
Current(s) == mounted /\ sockets[s].gen = gen

\* C6 as stated: once the view is torn down no connection attempt is made
\* for it any more: no reconnect timer of a torn-down view is pending,
\* whether set before the teardown or by the close that the teardown
\* causes, and no timer calls connectWebSocket for a torn-down view.
C6_NoReconnectAfterTeardown ==
    /\ \A t \in timers : mounted /\ t.gen = gen
    /\ last.op = "reconnect" => (mounted /\ last.arg.gen = gen)

\* C7: each channel failure (an error event and then the close event, or a
\* close event alone) leaves isConnected false and sets exactly one
\* reconnect timer, of 5000 ms; the timer calls connectWebSocket once, 5000
\* ms after the close.
C7_FailureSchedulesOneReconnect ==
    /\ last.op \in {"onerror", "onclose"} =>
          (Current(last.arg) => ~isConnected)
    /\ last.op = "onclose" =>
          \E t \in timers : t.by = last.arg /\ t.delay = 5000
    /\ \A s \in SocketIds :
          Cardinality(TimersBy(s)) + sockets[s].attempts =
              (IF sockets[s].closed THEN 1 ELSE 0)
    /\ last.op = "reconnect" =>
          (last.arg.elapsed = 5000 /\ sockets[last.arg.by].attempts = 1)

\* C7 witness: a socket signalled an error and then closed, and 5000 ms
\* later its timer made the reconnect attempt, which returned a new socket.
C7_Witness ==
    /\ last.op = "reconnect"
    /\ last.ret = "socket"
    /\ last.arg.elapsed = 5000
    /\ sockets[last.arg.by].errored
    /\ sockets[last.arg.by].closed
    /\ TimersBy(last.arg.by) = {}

RECURSIVE SumAttempts(_, _)
SumAttempts(g, n) ==
    IF n = 0
    THEN 0
    ELSE SumAttempts(g, n - 1)
            + (IF sockets[n].gen = g THEN sockets[n].attempts ELSE 0)

\* The channel failures of hook instance g so far, the reconnect attempts
\* it has made, and its reconnect timers still pending.
Failures(g) ==
    Cardinality({s \in SocketIds : sockets[s].gen = g /\ sockets[s].closed})
Attempts(g) == SumAttempts(g, Len(sockets))
PendingTimers(g) == Cardinality({t \in timers : t.gen = g})

\* C8: after k channel failures in a row the hook has made exactly k
\* reconnect attempts once no timer is pending (and k - 1 while the timer of
\* the last failure still runs), each attempt 5000 ms after the failure it
\* answers; and isConnected is false whenever the instance's socket is not
\* open, so from a failure until a connection opens.
C8_KFailuresKReconnects ==
    /\ \A g \in 1..gen :
          /\ PendingTimers(g) <= 1
          /\ Failures(g) = Attempts(g) + PendingTimers(g)
    /\ last.op = "reconnect" =>
          (sockets[last.arg.by].closed /\ last.arg.elapsed = 5000)
    /\ (mounted /\ isConnected) =>
          (ws[gen] # 0 /\ sockets[ws[gen]].readyState = "OPEN")

\* C8 witness: the mounted instance's channel has failed twice in a row
\* and two reconnect attempts were made; the second one's socket is still
\* connecting and isConnected is false.
C8_Witness ==
    /\ mounted
    /\ Failures(gen) = 2
    /\ Attempts(gen) = 2
    /\ PendingTimers(gen) = 0
    /\ ws[gen] # 0
    /\ sockets[ws[gen]].readyState = "CONNECTING"
    /\ ~isConnected

\* C9 as stated: while the view is mounted, every failed connection attempt
\* (a close, an error, or a failure to create the socket) is followed by
\* another attempt; so the mounted instance always has a socket whose close
\* event is still to come or a reconnect timer pending.
C9_AlwaysRetrying ==
    mounted =>
        \/ \E s \in SocketIds : sockets[s].gen = gen /\ ~sockets[s].closed
        \/ \E t \in timers : t.gen = gen

\* C10 as stated: at every moment at most one socket is connecting or open.
C10_AtMostOneLiveSocket ==
    Cardinality({s \in SocketIds :
        sockets[s].readyState \in {"CONNECTING", "OPEN"}}) <= 1

\* C11: each open event of a socket sends exactly one subscribe message on
\* that socket, the one the instance's ws variable holds, and sets the
\* isConnected state of the hook instance that owns the socket to true; a
\* socket carries as many subscribe messages as it has had open events, so
\* none when it never opened.
C11_SubscribeOnOpen ==
    /\ \A s \in SocketIds :
          /\ sockets[s].subscribes = sockets[s].opens
          /\ sockets[s].opens <= 1
          /\ sockets[s].readyState = "CONNECTING" => sockets[s].subscribes = 0
    /\ last.op = "onopen" =>
          /\ sockets[last.arg].readyState = "OPEN"
          /\ sockets[last.arg].subscribes = 1
          /\ ws[sockets[last.arg].gen] = last.arg
          /\ Current(last.arg) => isConnected

\* C11 witness: the socket of a reconnect attempt opened; the subscribe went
\* out on it and not again on the socket that had failed before it.
C11_Witness ==
    /\ last.op = "onopen"
    /\ last.arg > 1
    /\ Current(last.arg)
    /\ isConnected
    /\ sockets[last.arg].subscribes = 1
    /\ \E s \in SocketIds :
          /\ s < last.arg
          /\ sockets[s].gen = gen
          /\ sockets[s].closed
          /\ sockets[s].subscribes = 1

\* The store action that forwards a delta message of the given kind.
DeltaAction(kind) ==
    CASE kind = "node_added" -> "ADD_GRAPH_NODE"
      [] kind = "node_removed" -> "REMOVE_GRAPH_NODE"
      [] kind = "link_added" -> "ADD_GRAPH_LINK"
      [] kind = "link_removed" -> "REMOVE_GRAPH_LINK"

\* C12: a graph_updated message starts exactly one refresh (one more
\* getGraph call awaited, loading set, error status cleared, nothing
\* dispatched to the snapshot); a node_added, node_removed, link_added or
\* link_removed message reaches the store as exactly one delta of the same
\* kind that carries the message's data (for node_removed its nodeId), and
\* starts no call.
C12_MessagesForwarded ==
    /\ last.op = "graph_updated" =>
          /\ pending =
                [last.prevPending EXCEPT !["getGraph"] = @ + 1]
          /\ loading /\ error = Null
          /\ graphData = last.prev
          /\ Len(log) = last.prevLog
    /\ last.op \in DeltaTypes =>
          /\ Len(log) = last.prevLog + 1
          /\ log[Len(log)] =
                [op |-> DeltaAction(last.op),
                 arg |-> IF last.op = "node_removed"
                         THEN last.arg.nodeId ELSE last.arg]
          /\ graphData =
                Reduce(last.prev, log[Len(log)].op, log[Len(log)].arg)
          /\ pending = last.prevPending
          /\ loading = last.prevLoading /\ error = last.prevError

\* C12 witness: after a link_added delta had put a link into the snapshot,
\* a graph_updated message started a refresh while none was awaited.
C12_Witness ==
    /\ last.op = "graph_updated"
    /\ last.prevPending["getGraph"] = 0
    /\ pending["getGraph"] = 1
    /\ Len(log) >= 3
    /\ log[Len(log)].op = "ADD_GRAPH_LINK"
    /\ graphData.links # {}

\* The handler that ran last was ws.onmessage for a frame that is not JSON
\* or is the JSON text null, for an envelope without a type, or for one of
\* a type the switch does not know.
UnrecognizedFrame ==
    \/ last.op = "caught" /\ (last.arg.syntax = "garbage" \/ last.arg.null)
    \/ last.op = Absent
    \/ last.op \in {TypeOf(m) : m \in UnknownMessages}

\* C13: a frame that is not valid JSON, an envelope without a type and an
\* envelope of an unrecognized type leave the snapshot, the loading flag,
\* the error status and isConnected as they were, start no call, leave the
\* socket they came in on open, and set no reconnect timer.
C13_UnrecognizedIgnored ==
    UnrecognizedFrame =>
        /\ graphData = last.prev
        /\ loading = last.prevLoading
        /\ error = last.prevError
        /\ pending = last.prevPending
        /\ isConnected = last.prevConnected
        /\ sockets[last.ret].readyState = "OPEN"
        /\ ~sockets[last.ret].closed
        /\ scheduled = last.prevScheduled

\* C13 witness: text that is not JSON came in on the socket of a reconnect
\* attempt while the snapshot had a link and the channel was connected.
C13_Witness ==
    /\ last.op = "caught"
    /\ last.arg.syntax = "garbage"
    /\ last.ret > 1
    /\ scheduled = 1
    /\ isConnected
    /\ graphData.links # {}

\* Whether the data of a delta envelope of the given kind lacks a field the
\* delta requires.
MissingRequired(kind, data) ==
    CASE kind = "node_added" -> ~({"id", "type"} \subseteq DOMAIN data)
      [] kind = "node_removed" -> ~Has(data, "nodeId")
      [] kind \in {"link_added", "link_removed"} ->
            ~({"source", "target", "type"} \subseteq DOMAIN data)

\* The handler that ran last was ws.onmessage for a delta envelope with a
\* required field missing: one that the switch passed on to the store, or a
\* node_removed without data, on which the switch threw.
MalformedDeltaFrame ==
    \/ last.op \in DeltaTypes /\ MissingRequired(last.op, last.arg)
    \/ /\ last.op = "caught"
       /\ last.arg.syntax = "json" /\ ~last.arg.null
       /\ TypeOf(last.arg.value) \in DeltaTypes

\* C14: a delta message of a recognized kind whose required fields are
\* missing leaves the snapshot as it was, with every link's endpoints
\* present.
C14_MalformedDeltaIgnored ==
    MalformedDeltaFrame =>
        (graphData = last.prev /\ LinkInvariant(graphData))

\* C14 witness: a link_added delta without a target reached a snapshot that
\* has both nodes and a link, and left it alone.
C14_Witness ==
    /\ last.op = "link_added"
    /\ ~Has(last.arg, "target")
    /\ Cardinality(graphData.nodes) = 2
    /\ graphData.links # {}
    /\ graphData = last.prev

\* C15: a node_added delta for an id that the snapshot already has leaves
\* the node set (and the links) as they were; and after any node_added
\* delta, applying the same delta once more yields the same node set.
C15_NodeAddedIdempotent ==
    last.op = "node_added" =>
        /\ last.arg.id \in IdsOf(last.prev.nodes) => graphData = last.prev
        /\ Reduce(graphData, "ADD_GRAPH_NODE", last.arg).nodes =
              graphData.nodes

\* C15 witness: a node_added delta came for the id of a File node, carrying
\* a LintError node of that id, and the snapshot stayed as it was.
C15_Witness ==
    /\ last.op = "node_added"
    /\ last.arg.type = "LintError"
    /\ \E n \in last.prev.nodes : n.id = last.arg.id /\ n.type = "File"
    /\ last.prev.links # {}
    /\ graphData = last.prev

\* C16: a link_added delta whose source or target is not the id of a node
\* of the snapshot is dropped: nodes and links are as they were.
C16_LinkAddedNeedsEndpoints ==
    (last.op = "link_added"
        /\ (last.arg.source \notin IdsOf(last.prev.nodes)
                \/ last.arg.target \notin IdsOf(last.prev.nodes))) =>
        graphData = last.prev

\* C16 witness: a link_added delta named a source that is present and a
\* target that is not, and the link is not in the snapshot.
C16_Witness ==
    /\ last.op = "link_added"
    /\ last.arg.source \in IdsOf(last.prev.nodes)
    /\ last.arg.target \notin IdsOf(last.prev.nodes)
    /\ last.arg \notin graphData.links
    /\ graphData = last.prev

\* C17 as stated: the snapshot that a successful refresh or prune response
\* installs has every link's endpoints among its nodes, whatever the
\* response held.
C17_IngestionKeepsLinkInvariant ==
    (last.op \in {"getGraph", "pruneTree"} /\ ~Throws(last.arg)) =>
        LinkInvariant(graphData)

\* The upper-case letters of the strings and their lower-case forms.
CasePairs == {<<"M", "m">>, <<"A", "a">>, <<"I", "i">>}

SameLetter(a, b) == a = b \/ <<a, b>> \in CasePairs \/ <<b, a>> \in CasePairs

\* Whether the string str contains the string term, ignoring case.
ContainsIgnoringCase(str, term) ==
    LET cs == Chars(str)
        ts == Chars(term)
    IN  \E off \in 0..Len(cs) :
            /\ off + Len(ts) <= Len(cs)
            /\ \A k \in 1..Len(ts) : SameLetter(cs[off + k], ts[k])

\* The name and the path of a node, empty when it has none.
NameOfNode(n) ==
    IF "properties" \in DOMAIN n /\ "name" \in DOMAIN n.properties
    THEN n.properties.name ELSE ""
PathOfNode(n) ==
    IF "properties" \in DOMAIN n /\ "path" \in DOMAIN n.properties
    THEN n.properties.path ELSE ""

\* C18: in the visible set that the view computes from a snapshot and the
\* filter criteria, a node of the snapshot is present if and only if its
\* type is one of the allowed types, and the search term is empty or is
\* contained, ignoring case, in its name or in its path, and showErrors is
\* set or its type is not LintError; and nothing else is present.
C18_NodeVisibility ==
    last.op = "simulation" =>
        /\ last.ret.nodes \subseteq last.prev.nodes
        /\ \A n \in last.prev.nodes :
              n \in last.ret.nodes <=>
                  /\ n.type \in last.arg.nodeTypes
                  /\ \/ last.arg.searchTerm = ""
                     \/ ContainsIgnoringCase(NameOfNode(n),
                                             last.arg.searchTerm)
                     \/ ContainsIgnoringCase(PathOfNode(n),
                                             last.arg.searchTerm)
                  /\ (last.arg.showErrors \/ n.type # "LintError")

\* C18 witness: under the search term "AI" the view of all four nodes shows
\* the File named Main and the Class whose path is Main, and neither the
\* LintError named util nor the node of the unknown type.
C18_Witness ==
    /\ last.op = "simulation"
    /\ last.arg.searchTerm = "AI"
    /\ last.arg.nodeTypes = NodeTypes
    /\ last.arg.showErrors
    /\ last.prev.nodes = FilterNodes
    /\ IdsOf(last.ret.nodes) = {1, 2}

\* C19: in the visible set, a link of the snapshot is present if and only
\* if its source id and its target id are both ids of visible nodes and
\* showCalls is set or its type is not CALLS, whether its endpoints are
\* bare ids or node references; so every visible link has both endpoints
\* among the visible nodes.
C19_LinkVisibility ==
    last.op = "simulation" =>
        /\ last.ret.links \subseteq last.prev.links
        /\ \A l \in last.prev.links :
              l \in last.ret.links <=>
                  /\ l.source \in IdsOf(last.ret.nodes)
                  /\ l.target \in IdsOf(last.ret.nodes)
                  /\ (last.arg.showCalls \/ l.type # "CALLS")

\* C20: whenever the simulation effect starts a simulation, whatever the
\* store holds, every link it hands to the link force has its source and its
\* target among the nodes it hands to the same simulation; a link of the
\* snapshot with an endpoint that is no node of the snapshot is not handed
\* over.
C20_LayoutGetsNoDanglingLink ==
    last.op = "simulation" =>
        /\ LinkInvariant(last.ret)
        /\ \A l \in last.prev.links :
              (l.source \notin IdsOf(last.prev.nodes)
                  \/ l.target \notin IdsOf(last.prev.nodes)) =>
                  l \notin last.ret.links

\* C20 witness: the store held a link to a node it does not hold, next to a
\* link between two nodes it holds; the simulation got the two nodes and
\* the one link between them.
C20_Witness ==
    /\ last.op = "simulation"
    /\ ~LinkInvariant(last.prev)
    /\ Cardinality(last.ret.nodes) = 2
    /\ Cardinality(last.ret.links) = 1
    /\ Cardinality(last.prev.links) > 1

\* A link with its endpoints as bare ids.
BareLink(l) == [source |-> l.source, target |-> l.target, type |-> l.type]

\* The snapshot g with every link endpoint a bare id, and with every link
\* endpoint a reference to the node of that id.
WithBareIds(g) == [g EXCEPT !.links = {BareLink(l) : l \in @}]
WithReferences(g) == [g EXCEPT !.links = {ForceLinkResolve(l) : l \in @}]

\* C21: the filter and the highlighter give the same result whether the
\* endpoints of the links are bare node ids or references to the nodes of
\* those ids: the visible nodes and the visible links of a snapshot are the
\* same for the two forms and for the mix of forms the store holds, and so
\* is the set of ids that the highlighter collects as connected to a
\* visible node.
C21_DualFormEquivalence ==
    last.op = "simulation" =>
        LET asIds == filteredData(WithBareIds(last.prev), last.arg)
            asRefs == filteredData(WithReferences(last.prev), last.arg)
        IN  /\ asIds.nodes = asRefs.nodes
            /\ asIds.nodes = last.ret.nodes
            /\ asIds.links = {BareLink(l) : l \in asRefs.links}
            /\ asIds.links = {BareLink(l) : l \in last.ret.links}
            /\ \A n \in asIds.nodes :
                  connectedNodeIds(asIds.links, n)
                      = connectedNodeIds(
                            {ForceLinkResolve(l) : l \in asIds.links}, n)

\* The search terms of the filter criteria.
SearchTerms == {f.searchTerm : f \in FilterCriteria}

\* Whether the node passes the substring test of the search term.
PassesSearch(n, term) ==
    \/ term = ""
    \/ ContainsIgnoringCase(NameOfNode(n), term)
    \/ ContainsIgnoringCase(PathOfNode(n), term)

\* The nodes visible in the last simulation's snapshot under its criteria
\* with the search term replaced by term.
VisibleUnder(term) ==
    filteredData(last.prev, [last.arg EXCEPT !.searchTerm = term]).nodes

\* C22 as stated: with the snapshot and the other criteria fixed, a change
\* of searchTerm from any old term to the new one only removes nodes that
\* fail the new substring test, and adds no node.
C22_AsStated ==
    last.op = "simulation" =>
        \A old \in SearchTerms :
            /\ \A n \in VisibleUnder(old) \ last.ret.nodes :
                  ~PassesSearch(n, last.arg.searchTerm)
            /\ last.ret.nodes \subseteq VisibleUnder(old)

\* C22: with the snapshot and the other criteria fixed, a change of
\* searchTerm removes exactly the visible nodes whose name and path both
\* fail the new substring test, and adds exactly the nodes that failed the
\* old test, pass the new one and pass the other criteria; so it adds no
\* node when the old term is empty or is contained, ignoring case, in the
\* new term.
C22_SearchTermChange ==
    last.op = "simulation" =>
        \A old \in SearchTerms :
            /\ \A n \in VisibleUnder(old) :
                  n \in last.ret.nodes
                      <=> PassesSearch(n, last.arg.searchTerm)
            /\ \A n \in last.ret.nodes \ VisibleUnder(old) :
                  /\ ~PassesSearch(n, old)
                  /\ PassesSearch(n, last.arg.searchTerm)
                  /\ n \in VisibleUnder("")
            /\ (old = "" \/ ContainsIgnoringCase(last.arg.searchTerm, old))
                  => last.ret.nodes \subseteq VisibleUnder(old)

\* C22 witness: the simulation runs under the search term "main" on the
\* five nodes: against the empty term the nodes that match neither in name
\* nor in path are gone, against the term "AI" nothing is added, and
\* against the term "ib" the Class whose path is Main is added.
C22_Witness ==
    /\ last.op = "simulation"
    /\ last.arg.searchTerm = "main"
    /\ last.prev.nodes = FilterNodes
    /\ last.ret.nodes # {}
    /\ VisibleUnder("") \ last.ret.nodes # {}
    /\ last.ret.nodes \subseteq VisibleUnder("AI")
    /\ \E n \in last.ret.nodes \ VisibleUnder("ib") : n.id = 2

\* The handlers that start a refresh: the Refresh and Retry controls, the
\* initial fetch of a mount, and a graph_updated message.
StartsRefresh ==
    last.op \in {"refreshGraph", "mount", "graph_updated"}

\* What a refresh does to the flags: loading is true and error is null once
\* its call is issued, and loading is false once its call has settled.
C27_Flags ==
    /\ StartsRefresh =>
          /\ pending["getGraph"] = last.prevPending["getGraph"] + 1
          /\ loading
          /\ error = Null
    /\ last.op = "getGraph" =>
          /\ pending["getGraph"] = last.prevPending["getGraph"] - 1
          /\ ~loading

\* C27: a refresh sets loading to true and error to null by the time its
\* request is issued, and sets loading to false when the request finishes,
\* whether it succeeded or failed; as every issued request finishes in the
\* end, a refresh in flight leads to loading being false.
C27_RefreshLoading ==
    /\ []C27_Flags
    /\ (pending["getGraph"] > 0) ~> ~loading

\* C27 witness: a refresh that overlapped a prune has failed: loading was
\* true, it is false now, the error is set and the prune is still awaited.
C27_Witness ==
    /\ last.op = "getGraph"
    /\ Throws(last.arg)
    /\ last.prevLoading
    /\ ~loading
    /\ error # Null
    /\ pending["pruneTree"] > 0

\* C28: getGraphStats returns the statistics or null: whenever its call
\* fails, by a rejected invoke or by a backend call that failed in the main
\* process, the caller receives null, and it never receives an object that
\* carries an error field.
C28_StatsOrNull ==
    last.op = "getGraphStats" =>
        /\ (last.arg.kind = "reject" \/ last.arg.error # Absent)
              => last.ret = NullValue
        /\ last.ret # NullValue => last.ret.error = Absent

\* C23: whenever the simulation effect creates a simulation, the one before
\* it has been stopped, so no simulation has ever been replaced while it
\* was running and the only one that can be running is the newest; and
\* while the view is torn down no simulation is running.
C23_OneSimulation ==
    /\ discarded = {}
    /\ ~mounted => (simulation = NullValue \/ ~simulation.running)

\* A running simulation has been replaced by a new one, which runs alone.
C23_Witness ==
    /\ last.op = "simulation"
    /\ last.prevView.replaced
    /\ simulation.running
    /\ discarded = {}

\* The node objects of the store and of the simulation.
AllNodes ==
    graphData.nodes
        \cup (IF simulation = NullValue THEN {} ELSE simulation.nodes)

\* C24: in every reachable state a pinned node is the node of the drag in
\* progress; the start of a drag pins its node and the end of a drag leaves
\* no node pinned.
C24_PinnedOnlyWhileDragged ==
    /\ \A n \in AllNodes : Pinned(n) => (drag # NullValue /\ drag.d = n)
    /\ last.op = "dragstarted" =>
            /\ Pinned(drag.d)
            /\ drag.d \in simulation.nodes
    /\ last.op = "dragended" => \A n \in AllNodes : ~Pinned(n)

\* A drag has ended on a node that was pinned in a simulation created
\* during the drag.
C24_Witness ==
    /\ last.op = "dragended"
    /\ ~last.prevView.drag.own
    /\ last.prevView.drag.d \in last.prevView.simulation.nodes
    /\ Pinned(last.prevView.drag.d)

\* The opacity that an element is painted with by its opacity style, and
\* the appearance of a link's line: the opacity style and the
\* stroke-opacity attribute multiply, and the stroke-width style overrides
\* the attribute.
PaintedOpacity(e) == IF e.styleOpacity = NotSet THEN 100 ELSE e.styleOpacity
LinkAppearance(e) ==
    [opacity |-> (PaintedOpacity(e) * e.attrStrokeOpacity) \div 100,
     width |-> IF e.styleStrokeWidth = NotSet THEN e.attrStrokeWidth
               ELSE e.styleStrokeWidth]

\* C25: after the pointer has entered the circle of node f, the node
\* elements with full opacity are exactly f and the nodes joined to f by a
\* link of the scene, every other node element has opacity 0.3, the link
\* elements with full opacity and width 3 are exactly those of the links
\* with f at an end, and every other link element has opacity 0.1.
C25_FocusHighlight ==
    last.op = "mouseover" =>
        LET f == last.arg
            Joined(i) == \E l \in simulation.links :
                            \/ l.source = f /\ l.target = i
                            \/ l.target = f /\ l.source = i
        IN  /\ \A e \in scene.nodes :
                    e.styleOpacity =
                        IF e.id = f \/ Joined(e.id) THEN 100 ELSE 30
            /\ \A e \in scene.links :
                    IF e.d.source = f \/ e.d.target = f
                    THEN e.styleOpacity = 100 /\ e.styleStrokeWidth = 3
                    ELSE e.styleOpacity = 10

\* C26: after the pointer has left a circle, every node element is painted
\* with full opacity and every link element is painted as it was when the
\* scene was drawn: with opacity 0.6 and the baseline width of its type.
C26_ClearRestoresFirstDraw ==
    last.op = "mouseout" =>
        /\ \A e \in scene.nodes :
                PaintedOpacity(e) = PaintedOpacity(NodeElement(e))
        /\ \A e \in scene.links :
                /\ LinkAppearance(e) = LinkAppearance(LinkElement(e.d))
                /\ LinkAppearance(e) =
                        [opacity |-> 60,
                         width |-> IF e.d.type = "CALLS" THEN 2 ELSE 1]

\* The view as the handlers of the view record it before they run.
CurrentView ==
    [filters |-> filters, dimensions |-> dimensions,
     selectedNode |-> selectedNode, hoveredNode |-> hoveredNode,
     transform |-> transform, simulation |-> simulation, scene |-> scene,
     drag |-> drag, images |-> images]

\* The store is as it was before the handler that ran last.
StoreUnchanged ==
    /\ graphData = last.prev
    /\ loading = last.prevLoading
    /\ error = last.prevError

\* C29: a call of exportGraph, for 'svg', 'png' or any other format, and
\* the load of the image of a raster export leave the simulation with its
\* nodes' positions and pins, the selected node, the hovered node, the
\* filters and the store as they were.
C29_ExportChangesNothing ==
    last.op \in {"exportGraph", "imageOnload"} =>
        /\ simulation = last.prevView.simulation
        /\ selectedNode = last.prevView.selectedNode
        /\ hoveredNode = last.prevView.hoveredNode
        /\ filters = last.prevView.filters
        /\ drag = last.prevView.drag
        /\ scene = last.prevView.scene
        /\ StoreUnchanged

\* A raster export has been asked for while a node was selected, a node
\* hovered and a node pinned by a drag in a running simulation.
C29_Witness ==
    /\ last.op = "exportGraph"
    /\ last.arg = "png"
    /\ selectedNode # NullValue
    /\ hoveredNode # NullValue
    /\ drag # NullValue
    /\ \E n \in simulation.nodes : Pinned(n)
    /\ simulation.running
    /\ images # {}

\* The nodes of the view's simulation that have the id.
NodesOfId(view, nodeId) ==
    IF view.simulation = NullValue THEN {}
    ELSE {n \in view.simulation.nodes : n.id = nodeId}

\* C30: a call of focusOnNode with an id that no node of the view's
\* simulation has changes nothing; with the id of a node of the simulation
\* it selects that node and sets a zoom transform that puts the node's
\* position at the centre of the viewport, and changes nothing else of the
\* view, of the simulation with its nodes' positions and pins, and of the
\* store.
C30_FocusOnNode ==
    last.op = "focusOnNode" =>
        LET found == NodesOfId(last.prevView, last.arg)
        IN  /\ StoreUnchanged
            /\ [CurrentView EXCEPT !.scene.zoom = zoomIdentity,
                                   !.selectedNode = NullValue]
                 = [last.prevView EXCEPT !.scene.zoom = zoomIdentity,
                                         !.selectedNode = NullValue]
            /\ IF found = {}
               THEN CurrentView = last.prevView
               ELSE \E node \in found :
                      /\ selectedNode = NodeOf(node)
                      /\ node \in simulation.nodes
                      /\ Apply(scene.zoom, [x |-> node.x, y |-> node.y])
                           = [x |-> dimensions.width \div 2,
                              y |-> dimensions.height \div 2]

\* The focus button has centred a node other than the selected one, which
\* the simulation had moved from its first position.
C30_Witness ==
    /\ last.op = "focusOnNode"
    /\ last.ret # NullValue
    /\ last.prevView.selectedNode # selectedNode
    /\ [x |-> last.ret.x, y |-> last.ret.y] # InitialPosition(last.ret)
    /\ scene.zoom # last.prevView.scene.zoom

\* The view shows the graph and its simulation effect has run for what it
\* shows.
ShowsGraph == mounted /\ SvgRendered /\ ~effectPending

\* C31: whenever the view shows the graph, a simulation exists whose nodes
\* and links are exactly those of the visible subgraph and whose scene is
\* drawn in the svg element, and right after the effect has created it the
\* simulation is running; this holds too when the graph has just replaced
\* the loading or the error screen, whether the data and the status were
\* rendered together or one after the other.
C31_SimulationWhileShown ==
    ShowsGraph =>
        /\ simulation # NullValue
        /\ scene.drawn
        /\ simulation.nodes = filteredData(graphData, filters).nodes
        /\ simulation.links = filteredData(graphData, filters).links
        /\ last.op = "simulation" => simulation.running

\* C32: while a getGraph call of a refresh or a pruneTree call is in
\* flight, loading is true, also when another such call, started before or
\* after it, has settled in the meantime.
C32_LoadingWhileInFlight ==
    (pending["getGraph"] + pending["pruneTree"] > 0) => loading = TRUE

\* The hook instance that created socket s has been torn down.
TornDown(s) == ~(mounted /\ sockets[s].gen = gen)

\* C33: a message handled by the onmessage of a socket whose hook instance
\* has been torn down leaves the snapshot as it was and starts no getGraph
\* call, also when the socket was still connecting at the teardown.
C33_NoMessageAfterTeardown ==
    (last.op \in DeltaTypes \cup {"graph_updated"} /\ TornDown(last.ret)) =>
        /\ graphData = last.prev
        /\ pending["getGraph"] = last.prevPending["getGraph"]

\* C34: while the view is mounted and isConnected is true, the socket that
\* the hook's ws variable holds is open: it has fired its open event and
\* since then neither its error nor its close event.
C34_ConnectedMeansOpen ==
    (mounted /\ isConnected) =>
        /\ ws[gen] # 0
        /\ sockets[ws[gen]].gen = gen
        /\ sockets[ws[gen]].readyState = "OPEN"
        /\ sockets[ws[gen]].opens > 0
        /\ ~sockets[ws[gen]].errored
        /\ ~sockets[ws[gen]].closed

\* The view is connected through a socket created by a reconnect, after an
\* earlier socket of the same view was open and closed.
C34_Witness ==
    /\ mounted
    /\ isConnected
    /\ last.op = "onopen"
    /\ \E s \in 1..Len(sockets) :
            /\ s < ws[gen]
            /\ sockets[s].gen = gen
            /\ sockets[s].opens > 0
            /\ sockets[s].closed

\* The ids of the nodes of the current visible subgraph.
VisibleIds == IdsOf(filteredData(graphData, filters).nodes)

\* C35: in every reachable state selectedNode is null or a node of the
\* current visible subgraph, and so is hoveredNode.
C35_SelectionIsVisible ==
    /\ selectedNode # NullValue => selectedNode.id \in VisibleIds
    /\ hoveredNode # NullValue => hoveredNode.id \in VisibleIds

C37_QueriesChangeNothing ==
    /\ last.op \in QueryOps =>
            /\ StoreUnchanged
            /\ Throws(last.arg) => last.ret = Fallback(last.op)
    /\ last.op = "getGraphStats" =>
            /\ StoreUnchanged
            /\ Throws(last.arg) => last.ret = NullValue

\* The signals delivered to the process p.
Sent(p, signal) == \E i \in 1..Len(p.signals) : p.signals[i] = signal

\* C38: when the timeout that stopPythonBackend set has run, 5 seconds after
\* the SIGTERM, a backend that was stopped and has still not exited has been
\* sent SIGKILL.
C38_ForceKillAfterTimeout ==
    (/\ last.op = "forceKill"
     /\ pythonProcess # NullValue
     /\ pythonProcess.pid = last.arg
     /\ pythonProcess.alive) =>
        Sent(pythonProcess, "SIGKILL")

\* C39: the windows map has an entry for every child window that is still
\* open, and no entry for one that has closed.
C39_MapTracksOpenWindows ==
    /\ \A w \in WindowIds :
           ~childWindows[w].destroyed => windows[childWindows[w].name] = w
    /\ \A name \in WindowNames :
           windows[name] # NoWindow => ~childWindows[windows[name]].destroyed

====
